---- MODULE Spec2Model ----
(***************************************************************************)
(* wot-mcp: the MCP server that exposes WoT things as tools and resources, *)
(* its per-session server instances, the subscription map, the event       *)
(* buffer and the notification fan-out (McpServer, EventBuffer,            *)
(* WotMcpBridge.addThing).                                                 *)
(*                                                                         *)
(* Strings are sequences of one-character strings, so that building a URI  *)
(* or a tool name is a concatenation that can be compared and taken apart. *)
(* A JavaScript Map is a sequence of <<key, value>> pairs in insertion     *)
(* order.  Server instances are numbered: 0 is the stdio instance, a       *)
(* session's instance carries the number of its session identifier.        *)
(* Node runs one synchronous block at a time: `running` names the task     *)
(* whose block is open, and every other action waits for running = 0.      *)
(***************************************************************************)
EXTENDS Integers, Sequences, FiniteSets, TLC

\* ------------------------------------------------------------------ bounds
MaxSessions == 2
MaxTasks == 1
MaxAdds == 1
MaxEventsPerUri == 2
MaxEvents == 3
MaxCalls == 2
MaxPending == 1
MaxTime == 3
EventTtlMs == 2
MaxIdLen == 3

\* --------------------------------------------------------------- constants
StdioServer == 0
SessionIds == 1..MaxSessions
Servers == {StdioServer} \cup SessionIds
TaskIds == 1..MaxTasks
AddIds == 1..MaxAdds
CallIds == 1..MaxCalls

\* ------------------------------------------------------- JavaScript Map
MapHas(m, k) == \E i \in 1..Len(m) : m[i][1] = k
MapGet(m, k) == m[CHOOSE i \in 1..Len(m) : m[i][1] = k][2]
MapSet(m, k, v) ==
  IF MapHas(m, k)
    THEN [i \in 1..Len(m) |-> IF m[i][1] = k THEN <<k, v>> ELSE m[i]]
    ELSE Append(m, <<k, v>>)
MapDelete(m, k) == SelectSeq(m, LAMBDA e : e[1] # k)
MapKeys(m) == [i \in 1..Len(m) |-> m[i][1]]
MapValues(m) == [i \in 1..Len(m) |-> m[i][2]]
MapKeySet(m) == {m[i][1] : i \in 1..Len(m)}
Range(s) == {s[i] : i \in 1..Len(s)}

\* ------------------------------------------------------- names and URIs
WotScheme == <<"w", "o", "t", ":", "/", "/">>
PropertiesSeg == <<"/", "p", "r", "o", "p", "e", "r", "t", "i", "e", "s", "/">>
EventsSeg == <<"/", "e", "v", "e", "n", "t", "s", "/">>
PropertyUri(thingId, name) == WotScheme \o thingId \o PropertiesSeg \o name
EventUri(thingId, name) == WotScheme \o thingId \o EventsSeg \o name

AlnumChars ==
  {"a", "b", "c", "d", "e", "f", "g", "h", "i", "j", "k", "l", "m", "n", "o",
   "p", "q", "r", "s", "t", "u", "v", "w", "x", "y", "z",
   "0", "1", "2", "3", "4", "5", "6", "7", "8", "9"}
\* str.replace(/[^a-z0-9]/gi, '_') on the lower-case names of the catalogue
ToolNamePart(str) ==
  [i \in 1..Len(str) |-> IF str[i] \in AlnumChars THEN str[i] ELSE "_"]
GetterToolName(thingId, propName) ==
  <<"g", "e", "t", "_">> \o ToolNamePart(propName) \o <<"_">> \o ToolNamePart(thingId)
SetterToolName(thingId, propName) ==
  <<"s", "e", "t", "_">> \o ToolNamePart(propName) \o <<"_">> \o ToolNamePart(thingId)
ActionToolName(thingId, actionName) ==
  ToolNamePart(actionName) \o <<"_">> \o ToolNamePart(thingId)
GenericTools ==
  {<<"l", "i", "s", "t", "_", "d", "e", "v", "i", "c", "e", "s">>,
   <<"r", "e", "a", "d", "_", "p", "r", "o", "p", "e", "r", "t", "y">>,
   <<"w", "r", "i", "t", "e", "_", "p", "r", "o", "p", "e", "r", "t", "y">>,
   <<"i", "n", "v", "o", "k", "e", "_", "a", "c", "t", "i", "o", "n">>}

\* ------------------------------------------- translated things (inputs)
TranslatedProperty(thingId, name, writable) ==
  [uri |-> PropertyUri(thingId, name), wotName |-> name, writable |-> writable]
TranslatedAction(thingId, name, wrapped) ==
  [name |-> thingId \o <<"_">> \o name, wotName |-> name, thingId |-> thingId,
   inputWrapped |-> wrapped]
TranslatedEvent(thingId, name) ==
  [uri |-> EventUri(thingId, name), name |-> name, wotName |-> name]

Lamp ==
  [id |-> <<"l">>,
   properties |-> <<TranslatedProperty(<<"l">>, <<"b">>, TRUE), TranslatedProperty(<<"l">>, <<"s">>, FALSE)>>,
   actions |-> <<TranslatedAction(<<"l">>, <<"t">>, FALSE)>>,
   events |-> <<TranslatedEvent(<<"l">>, <<"o">>)>>]
Meter ==
  [id |-> <<"m">>,
   properties |-> <<TranslatedProperty(<<"m">>, <<"v">>, FALSE)>>,
   actions |-> <<>>,
   events |-> <<TranslatedEvent(<<"m">>, <<"a">>)>>]
ThingCatalog == {Lamp, Meter}
\* the resources a client may name in a subscribe request or an event may hit
Uris == {EventUri(<<"l">>, <<"o">>), EventUri(<<"m">>, <<"a">>)}
EventSources == {<<<<"l">>, <<"o">>>>}

\* ---------------------------------------------------------------- state
VARIABLES
  toolStrategy,        \* config.toolStrategy || 'explicit'
  stdioServer,         \* <<>> or <<StdioServer>>
  httpServer,          \* the /mcp handler is installed
  sessions,            \* Map session id -> {server, transport}
  serverSubscriptions, \* Map server instance -> set of URIs
  instances,           \* the SdkMcpServer objects created so far
  connecting,          \* new-session requests suspended at `await server.connect`
  issued,              \* number of identifiers crypto.randomUUID has returned
  things, properties, actions, events,   \* the registry Maps
  buffers, lastUpdated,                  \* EventBuffer
  now,                 \* Date.now()
  nextData,            \* payload of the next device event
  tasks,               \* handleWotEvent / notifyResourceListChanged invocations,
                       \* each with the instances it has sent its notification to
  running,             \* task whose synchronous block is open, 0 if none
  adds,                \* WotMcpBridge.addThing invocations
  listChangedOwed,     \* instances live at a registration and not told of it yet
  response,            \* what the last step answered to an /mcp request, if it was one
  caught,              \* the task whose rejected send the last step swallowed, 0 if none
  calls,               \* tool handlers suspended at their call of a device function
  external,            \* the device function the last step called, if it called one
  result,              \* what the last step returned to a tool call or a buffer read
  translated,          \* the description addThing consumed and what translate made of it
  shutdown,            \* how far McpServer.stop and WotMcpBridge.stop have come
  wotClient            \* WotClient: eventSubscriptions, the device's subscriptions,
                       \* the subscribeEvent calls under way

configVars == <<toolStrategy, stdioServer, httpServer>>
sessionVars == <<sessions, serverSubscriptions, connecting, issued>>
registryVars == <<things, properties, actions, events>>
bufferVars == <<buffers, lastUpdated, now, nextData>>
taskVars == <<tasks, running>>
bridgeVars == <<adds, listChangedOwed>>
toolVars == <<calls, external, result>>
vars == <<configVars, sessionVars, instances, registryVars, bufferVars,
          taskVars, bridgeVars, response, caught, toolVars, translated,
          shutdown, wotClient>>

NoInstance == [created |-> FALSE, tools |-> {}, resources |-> {}, transport |-> FALSE]
IdleTask ==
  [pc |-> "idle", method |-> "", uri |-> <<>>, data |-> 0, servers |-> <<>>,
   idx |-> 0, told |-> {}, owner |-> 0]
IdleAdd == [pc |-> "idle", thing |-> <<>>, task |-> 0]
NoResponse == [sid |-> 0, status |-> "", header |-> 0]
\* JSON values: undefined, a number, or an object that may have a member
\* `value` (value = <<its value>>) and a member `k` (n = its number, 0 if absent)
JUndefined == [t |-> "undefined", n |-> 0, value |-> <<>>]
JNumber(n) == [t |-> "number", n |-> n, value |-> <<>>]
JObject(n, value) == [t |-> "object", n |-> n, value |-> value]
\* args.value, and whether `args` is truthy
ValueOf(args) ==
  IF args.t = "object" /\ args.value # <<>> THEN args.value[1] ELSE JUndefined
Truthy(args) == args.t = "object" \/ (args.t = "number" /\ args.n # 0)
NoRequest == [tool |-> <<>>, device_id |-> <<>>, member |-> <<>>, args |-> JUndefined]
NoCall == [pc |-> "idle", via |-> "", request |-> NoRequest]
NoExternal == [fn |-> "", thingId |-> <<>>, name |-> <<>>, value |-> JUndefined, call |-> 0]
NoResult == [kind |-> ""]
\* stop has not been called: pc is where McpServer.stop is, bridge where
\* WotMcpBridge.stop is, visited the sessions whose transport.close() was
\* called, atCall the sessions of the map when stop was called, log what was
\* closed or stopped, in order
NotStopping ==
  [pc |-> "idle", bridge |-> "idle", visited |-> {}, atCall |-> {}, log |-> <<>>]
\* WotClient before any subscribeEvent: tracked is eventSubscriptions (the
\* subscription stored for a thing's event, 0 if none), made the events of
\* the subscriptions the device has handed out, in order, active those of
\* them that are not stopped, calls the subscribeEvent calls, delivered
\* the number of times the last device event reached the callback
MaxSubscribes == 3
SubscribeIds == 1..MaxSubscribes
EventKeys == {<<<<"l">>, <<"o">>>>, <<<<"m">>, <<"a">>>>}
IdleSubscribe == [pc |-> "idle", key |-> <<>>, sub |-> 0]
NoSubscriptions ==
  [tracked |-> [k \in EventKeys |-> 0], made |-> <<>>, active |-> {},
   calls |-> [c \in SubscribeIds |-> IdleSubscribe], delivered |-> 0]
\* nothing consumed or translated yet
NoTranslation ==
  [pc |-> "idle",
   td |-> [id |-> <<>>, title |-> <<>>, properties |-> <<>>, actions |-> <<>>],
   consumedId |-> <<>>,
   thing |-> [id |-> <<>>, title |-> <<>>, properties |-> <<>>, actions |-> <<>>]]
\* a step that is no tool call and no buffer read
NoToolStep == calls' = calls /\ external' = NoExternal /\ result' = NoResult

\* ------------------------------------------------ SDK registerTool/Resource
\* server.registerTool and server.registerResource refuse a name twice.
RECURSIVE ApplyOps(_, _)
ApplyOps(inst, ops) ==
  IF ops = <<>> THEN [inst |-> inst, threw |-> FALSE]
  ELSE LET op == Head(ops) IN
    IF op.kind = "tool"
      THEN IF op.name \in inst.tools
             THEN [inst |-> inst, threw |-> TRUE]
             ELSE ApplyOps([inst EXCEPT !.tools = @ \cup {op.name}], Tail(ops))
      ELSE IF op.name \in inst.resources
             THEN [inst |-> inst, threw |-> TRUE]
             ELSE ApplyOps([inst EXCEPT !.resources = @ \cup {op.name}], Tail(ops))

\* prop.uri.match(/^wot:\/\/([^/]+)\/properties\/(.+)$/): <<>> or <<thingId, name>>
FirstSlash(str) ==
  IF \E i \in 1..Len(str) : str[i] = "/"
    THEN CHOOSE i \in 1..Len(str) : str[i] = "/" /\ \A j \in 1..(i - 1) : str[j] # "/"
    ELSE 0
\* the characters `.` does not match
LineTerminators == {"\n", "\r"}
MatchPropertyUri(uri) ==
  LET n == Len(WotScheme)
      rest == SubSeq(uri, n + 1, Len(uri))
      slash == FirstSlash(rest)
      stop == slash + Len(PropertiesSeg) - 1
  IN IF /\ Len(uri) > n
        /\ SubSeq(uri, 1, n) = WotScheme
        /\ slash > 1
        /\ Len(rest) > stop
        /\ SubSeq(rest, slash, stop) = PropertiesSeg
        /\ \A i \in (stop + 1)..Len(rest) : rest[i] \notin LineTerminators
       THEN <<SubSeq(rest, 1, slash - 1), SubSeq(rest, stop + 1, Len(rest))>>
       ELSE <<>>
\* prop.uri.match(/wot:\/\/([^/]+)\/properties\/(.+)/), without anchors: the
\* leftmost place where the pattern matches, the name running up to the
\* first line terminator; <<>> or <<thingId, name>>
RECURSIVE Line(_)
Line(str) ==
  IF str = <<>> \/ Head(str) \in LineTerminators THEN <<>>
  ELSE <<Head(str)>> \o Line(Tail(str))
MatchPropertyUriAt(uri, from) ==
  LET tail == SubSeq(uri, from, Len(uri))
      n == Len(WotScheme)
      rest == SubSeq(tail, n + 1, Len(tail))
      slash == FirstSlash(rest)
      stop == slash + Len(PropertiesSeg) - 1
  IN IF /\ Len(tail) > n
        /\ SubSeq(tail, 1, n) = WotScheme
        /\ slash > 1
        /\ Len(rest) > stop
        /\ SubSeq(rest, slash, stop) = PropertiesSeg
        /\ Line(SubSeq(rest, stop + 1, Len(rest))) # <<>>
       THEN <<SubSeq(rest, 1, slash - 1), Line(SubSeq(rest, stop + 1, Len(rest)))>>
       ELSE <<>>
SearchPropertyUri(uri) ==
  LET places == {i \in 1..Len(uri) : MatchPropertyUriAt(uri, i) # <<>>}
  IN IF places = {} THEN <<>>
     ELSE MatchPropertyUriAt(uri, CHOOSE i \in places : \A j \in places : i <= j)
StripScheme(uri) ==
  IF Len(uri) >= Len(WotScheme) /\ SubSeq(uri, 1, Len(WotScheme)) = WotScheme
    THEN SubSeq(uri, Len(WotScheme) + 1, Len(uri))
    ELSE uri

registerPropertyGetterToolOnServer(prop) ==
  LET match == MatchPropertyUri(prop.uri) IN
  [kind |-> "tool",
   name |-> IF match # <<>> THEN GetterToolName(match[1], match[2])
            ELSE <<"g", "e", "t", "_">> \o ToolNamePart(StripScheme(prop.uri))]
registerPropertySetterToolOnServer(prop) ==
  LET match == MatchPropertyUri(prop.uri) IN
  [kind |-> "tool",
   name |-> IF match # <<>> THEN SetterToolName(match[1], match[2])
            ELSE <<"s", "e", "t", "_">> \o ToolNamePart(StripScheme(prop.uri))]
registerActionToolOnServer(action) ==
  [kind |-> "tool", name |-> ActionToolName(action.thingId, action.wotName)]
registerEventResourceOnServer(event) == [kind |-> "resource", name |-> event.uri]

RECURSIVE PropertyOps(_)
PropertyOps(props) ==
  IF props = <<>> THEN <<>>
  ELSE LET prop == Head(props) IN
    <<registerPropertyGetterToolOnServer(prop)>>
    \o (IF prop.writable THEN <<registerPropertySetterToolOnServer(prop)>> ELSE <<>>)
    \o PropertyOps(Tail(props))
ActionOps(acts) == [i \in 1..Len(acts) |-> registerActionToolOnServer(acts[i])]
EventOps(evs) == [i \in 1..Len(evs) |-> registerEventResourceOnServer(evs[i])]
SetToSeq(S) == CHOOSE s \in [1..Cardinality(S) -> S] : Range(s) = S
registerGenericTools ==
  LET names == SetToSeq(GenericTools) IN
  [i \in 1..Len(names) |-> [kind |-> "tool", name |-> names[i]]]

\* what one instance is asked to register: for the whole registry, for one thing
InitializeOps(strategy, props, acts, evs) ==
  (IF strategy = "explicit"
     THEN PropertyOps(MapValues(props)) \o ActionOps(MapValues(acts))
     ELSE registerGenericTools)
  \o EventOps(MapValues(evs))
\* variant: applyThingToAllServers without the strategy test
ThingOpsExplicitAlways(strategy, thing) ==
  PropertyOps(thing.properties) \o ActionOps(thing.actions) \o EventOps(thing.events)
ThingOps(strategy, thing) ==
  (IF strategy = "explicit"
     THEN PropertyOps(thing.properties) \o ActionOps(thing.actions)
     ELSE <<>>)
  \o EventOps(thing.events)

\* the list both fan-outs and applyThingToAllServers build
LiveServers(stdio, sess) ==
  stdio \o [i \in 1..Len(sess) |-> sess[i][2].server]


\* ------------------------------------------------------------------ Date
Digits == <<"0", "1", "2", "3", "4", "5", "6", "7", "8", "9">>
DigitValue(c) == CHOOSE d \in 0..9 : Digits[d + 1] = c
\* new Date(ms).toISOString(): whole seconds since the epoch (which the
\* date and time fields spell out) and the three digits after the point
ToISOString(ms) ==
  [seconds |-> ms \div 1000,
   millis |-> <<Digits[((ms % 1000) \div 100) + 1],
                Digits[((ms % 100) \div 10) + 1],
                Digits[(ms % 10) + 1]>>]
\* new Date(iso).getTime()
DateParse(iso) ==
  iso.seconds * 1000 + DigitValue(iso.millis[1]) * 100
  + DigitValue(iso.millis[2]) * 10 + DigitValue(iso.millis[3])
\* Array.prototype.slice(start)
Slice(arr, start) ==
  LET n == Len(arr)
      from == IF start < 0 THEN (IF n + start < 0 THEN 0 ELSE n + start)
              ELSE (IF start > n THEN n ELSE start)
  IN SubSeq(arr, from + 1, n)

\* ------------------------------------------------------------ EventBuffer
\* variant: initialize that empties a buffer that exists
BufferReset(bufs, uri) == MapSet(bufs, uri, <<>>)
BufferInitialize(bufs, uri) ==
  IF MapHas(bufs, uri) THEN bufs ELSE MapSet(bufs, uri, <<>>)
\* variant: push without the size check
BufferPushUnbounded(bufs, uri, event) ==
  MapSet(bufs, uri, Append(IF MapHas(bufs, uri) THEN MapGet(bufs, uri) ELSE <<>>, event))
\* variant: push that creates the buffer and drops the event
BufferPushNothing(bufs, uri, event) == BufferInitialize(bufs, uri)
BufferPush(bufs, uri, event) ==
  LET buffer == IF MapHas(bufs, uri) THEN MapGet(bufs, uri) ELSE <<>>
      pushed == Append(buffer, event)
  IN MapSet(bufs, uri, IF Len(pushed) > MaxEventsPerUri THEN Tail(pushed) ELSE pushed)
\* variant: no pruning
pruneNothing(bufs, uri, at) == bufs
pruneExpired(bufs, uri, at) ==
  IF ~MapHas(bufs, uri) THEN bufs
  ELSE LET buffer == MapGet(bufs, uri)
           cutoff == at - EventTtlMs
           pruned == SelectSeq(buffer, LAMBDA e : DateParse(e.timestamp) > cutoff)
       IN IF Len(pruned) # Len(buffer) THEN MapSet(bufs, uri, pruned) ELSE bufs
\* get, getSince, getRecent at clock `at`: the buffers after the call and
\* the array returned
BufferGet(bufs, uri, at) ==
  LET after == pruneExpired(bufs, uri, at) IN
  [buffers |-> after,
   events |-> IF MapHas(after, uri) THEN MapGet(after, uri) ELSE <<>>]
BufferGetSince(bufs, uri, since, at) ==
  LET got == BufferGet(bufs, uri, at)
      sinceDate == DateParse(since)
  IN [buffers |-> got.buffers,
      events |-> SelectSeq(got.events, LAMBDA e : DateParse(e.timestamp) > sinceDate)]
\* variant: the first `count` events instead of the last
BufferGetOldest(bufs, uri, count, at) ==
  LET got == BufferGet(bufs, uri, at) IN
  [buffers |-> got.buffers,
   events |-> SubSeq(got.events, 1, IF count < Len(got.events) THEN count
                                    ELSE Len(got.events))]
BufferGetRecent(bufs, uri, count, at) ==
  LET got == BufferGet(bufs, uri, at) IN
  [buffers |-> got.buffers, events |-> Slice(got.events, 0 - count)]
BufferCount(bufs, uri) == IF MapHas(bufs, uri) THEN Len(MapGet(bufs, uri)) ELSE 0
\* has(uri): this.buffers.has(uri) && this.buffers.get(uri)!.length > 0
BufferHas(bufs, uri) == MapHas(bufs, uri) /\ Len(MapGet(bufs, uri)) > 0
RECURSIVE BufferInitializeAll(_, _)
BufferInitializeAll(bufs, evs) ==
  IF evs = <<>> THEN bufs
  ELSE BufferInitializeAll(BufferInitialize(bufs, Head(evs).uri), Tail(evs))

\* ------------------------------------------------------------------ Init
Init ==
  /\ toolStrategy \in {"explicit", "generic"}
  /\ stdioServer = <<>>
  /\ httpServer = FALSE
  /\ sessions = <<>>
  /\ serverSubscriptions = <<>>
  /\ instances = [s \in Servers |-> NoInstance]
  /\ connecting = <<>>
  /\ issued = 0
  /\ things = <<>> /\ properties = <<>> /\ actions = <<>> /\ events = <<>>
  /\ buffers = <<>> /\ lastUpdated = <<>>
  /\ now = 0
  /\ nextData = 1
  /\ tasks = [t \in TaskIds |-> IdleTask]
  /\ running = 0
  /\ adds = [a \in AddIds |-> IdleAdd]
  /\ listChangedOwed = {}
  /\ response = NoResponse
  /\ caught = 0
  /\ calls = [c \in CallIds |-> NoCall]
  /\ external = NoExternal
  /\ result = NoResult
  /\ translated = NoTranslation
  /\ shutdown = NotStopping
  /\ wotClient = NoSubscriptions

\* ------------------------------------------------- creating an instance
setupSubscriptionHandlers(subs, server) ==
  IF MapHas(subs, server) THEN subs ELSE MapSet(subs, server, {})
\* initializeServer on a fresh instance: the instance, and whether a
\* registration threw before setupSubscriptionHandlers was reached
initializeServer ==
  ApplyOps([NoInstance EXCEPT !.created = TRUE],
           InitializeOps(toolStrategy, properties, actions, events))

\* start(mode)
StartMode(mode) ==
  /\ running = 0
  /\ IF mode = "stdio"
       THEN LET init == initializeServer IN
            /\ stdioServer' = <<StdioServer>>
            /\ httpServer' = httpServer
            /\ instances' = [instances EXCEPT ![StdioServer] =
                               [init.inst EXCEPT !.transport = ~init.threw]]
            /\ serverSubscriptions' =
                 IF init.threw THEN serverSubscriptions
                 ELSE setupSubscriptionHandlers(serverSubscriptions, StdioServer)
       ELSE /\ httpServer' = TRUE
            /\ UNCHANGED <<stdioServer, instances, serverSubscriptions>>
  /\ UNCHANGED <<toolStrategy, sessions, connecting, issued, registryVars,
                 bufferVars, taskVars, bridgeVars>>
  /\ response' = NoResponse
  /\ caught' = 0
  /\ NoToolStep
  /\ UNCHANGED <<translated, shutdown, wotClient>>
\* the server is started once, in one mode
Start(mode) ==
  /\ stdioServer = <<>> /\ ~httpServer
  /\ StartMode(mode)

\* ----------------------------------------------------- the /mcp handler
NoSessionRequests ==
  {[method |-> "POST", initialize |-> TRUE],
   [method |-> "POST", initialize |-> FALSE],
   [method |-> "GET", initialize |-> FALSE]}

\* no mcp-session-id header: the block up to `await server.connect(transport)`
NewSessionRequest(req) ==
  /\ running = 0
  /\ httpServer
  /\ issued < MaxSessions
  /\ LET newSessionId == issued + 1
         init == initializeServer
     IN /\ issued' = newSessionId
        /\ instances' = [instances EXCEPT ![newSessionId] =
                           [init.inst EXCEPT !.transport = ~init.threw]]
        /\ IF init.threw
             THEN /\ response' = [sid |-> 0, status |-> "error", header |-> 0]
                  /\ UNCHANGED <<serverSubscriptions, connecting>>
             ELSE /\ serverSubscriptions' =
                       setupSubscriptionHandlers(serverSubscriptions, newSessionId)
                  /\ connecting' = MapSet(connecting, newSessionId, req)
                  /\ response' = NoResponse
  /\ UNCHANGED <<configVars, sessions, registryVars, bufferVars, taskVars, bridgeVars>>
  /\ caught' = 0
  /\ NoToolStep
  /\ UNCHANGED <<translated, shutdown, wotClient>>

\* onsessioninitialized, which the transport calls for an initialize request only
onsessioninitialized(sess, id) ==
  MapSet(sess, id, [server |-> id, transport |-> id])

\* the rest of the new-session branch: transport.handleRequest(req, res)
ConnectResolved(sid) ==
  /\ running = 0
  /\ MapHas(connecting, sid)
  /\ LET req == MapGet(connecting, sid) IN
     /\ connecting' = MapDelete(connecting, sid)
     /\ IF req.initialize
          THEN /\ sessions' = onsessioninitialized(sessions, sid)
               /\ response' = [sid |-> 0, status |-> "initialized", header |-> sid]
          ELSE /\ sessions' = sessions
               /\ response' = [sid |-> 0, status |-> "not initialized",
                               header |-> IF req.method = "GET" THEN sid ELSE 0]
  /\ UNCHANGED <<configVars, serverSubscriptions, issued, instances, registryVars,
                 bufferVars, taskVars, bridgeVars>>
  /\ caught' = 0
  /\ NoToolStep
  /\ UNCHANGED <<translated, shutdown, wotClient>>

\* the subscribe and unsubscribe handlers of one instance
\* variant: one subscription set shared by all instances
SubscribeShared(subs, server, uri) ==
  [i \in DOMAIN subs |-> <<subs[i][1], subs[i][2] \cup {uri}>>]
Subscribe(subs, server, uri) ==
  IF MapHas(subs, server)
    THEN MapSet(subs, server, MapGet(subs, server) \cup {uri})
    ELSE subs
\* variant: unsubscribe that removes the URI from every instance's set
UnsubscribeEverywhere(subs, server, uri) ==
  [i \in DOMAIN subs |-> <<subs[i][1], subs[i][2] \ {uri}>>]
Unsubscribe(subs, server, uri) ==
  IF MapHas(subs, server)
    THEN MapSet(subs, server, MapGet(subs, server) \ {uri})
    ELSE subs

Rpcs ==
  {[method |-> m, uri |-> u] : m \in {"subscribe", "unsubscribe"}, u \in Uris}
  \cup {[method |-> "tools/list", uri |-> <<>>]}
HandleRpc(subs, server, rpc) ==
  CASE rpc.method = "subscribe" -> Subscribe(subs, server, rpc.uri)
    [] rpc.method = "unsubscribe" -> Unsubscribe(subs, server, rpc.uri)
    [] OTHER -> subs

\* transport.onclose of the session newSessionId with instance server
OnCloseSessions(sess, newSessionId) == MapDelete(sess, newSessionId)
\* variant: onclose that leaves the subscription set behind
OnCloseKeepsSubscriptions(subs, server) == subs
OnCloseSubscriptions(subs, server) == MapDelete(subs, server)

\* mcp-session-id is a key of the session map: POST of a JSON-RPC request
SessionRequest(sid, rpc) ==
  /\ running = 0
  /\ httpServer
  /\ MapHas(sessions, sid)
  /\ LET session == MapGet(sessions, sid) IN
       serverSubscriptions' = HandleRpc(serverSubscriptions, session.server, rpc)
  /\ response' = [sid |-> sid, status |-> "routed", header |-> 0]
  /\ UNCHANGED <<configVars, sessions, connecting, issued, instances, registryVars,
                 bufferVars, taskVars, bridgeVars>>
  /\ caught' = 0
  /\ NoToolStep
  /\ UNCHANGED <<translated, shutdown, wotClient>>

\* mcp-session-id is a key of the session map: DELETE, which closes the transport
SessionDelete(sid) ==
  /\ running = 0
  /\ httpServer
  /\ MapHas(sessions, sid)
  /\ LET session == MapGet(sessions, sid) IN
       /\ sessions' = OnCloseSessions(sessions, sid)
       /\ serverSubscriptions' = OnCloseSubscriptions(serverSubscriptions, session.server)
       /\ instances' = [instances EXCEPT ![session.server].transport = FALSE]
       /\ listChangedOwed' = listChangedOwed \ {session.server}
  /\ response' = [sid |-> sid, status |-> "routed", header |-> 0]
  /\ UNCHANGED <<configVars, connecting, issued, registryVars, bufferVars, taskVars, adds>>
  /\ caught' = 0
  /\ NoToolStep
  /\ UNCHANGED <<translated, shutdown, wotClient>>

\* mcp-session-id is no key of the session map
UnknownSession(sess, sid) == ~MapHas(sess, sid)
\* variant: an unknown identifier is adopted as a new session
UnknownSessionAdopted(sid) ==
  /\ running = 0
  /\ httpServer
  /\ UnknownSession(sessions, sid)
  /\ sid \in SessionIds
  /\ sessions' = onsessioninitialized(sessions, sid)
  /\ response' = [sid |-> sid, status |-> "routed", header |-> 0]
  /\ UNCHANGED <<configVars, serverSubscriptions, connecting, issued, instances,
                 registryVars, bufferVars, taskVars, bridgeVars>>
  /\ caught' = 0
  /\ NoToolStep
  /\ UNCHANGED <<translated, shutdown, wotClient>>
UnknownSessionRequest(sid) ==
  /\ running = 0
  /\ httpServer
  /\ UnknownSession(sessions, sid)
  /\ response' = [sid |-> sid, status |-> "Session not found", header |-> 0]
  /\ UNCHANGED <<configVars, sessionVars, instances, registryVars, bufferVars,
                 taskVars, bridgeVars>>
  /\ caught' = 0
  /\ NoToolStep
  /\ UNCHANGED <<translated, shutdown, wotClient>>

\* the instances a client can reach with a request
Reachable(server) ==
  /\ instances[server].transport
  /\ server \in Range(LiveServers(stdioServer, sessions))

\* the SubscribeRequestSchema / UnsubscribeRequestSchema handler of an instance
\* runs (over stdio, or routed by the /mcp handler)
ClientRequest(server, rpc) ==
  /\ running = 0
  /\ Reachable(server)
  /\ serverSubscriptions' = HandleRpc(serverSubscriptions, server, rpc)
  /\ UNCHANGED <<configVars, sessions, connecting, issued, instances, registryVars,
                 bufferVars, taskVars, bridgeVars>>
  /\ response' = NoResponse
  /\ caught' = 0
  /\ NoToolStep
  /\ UNCHANGED <<translated, shutdown, wotClient>>

\* ---------------------------------------------------------- registerThing
RECURSIVE PutByUri(_, _)
PutByUri(m, items) ==
  IF items = <<>> THEN m
  ELSE PutByUri(MapSet(m, Head(items).uri, Head(items)), Tail(items))
RECURSIVE PutByName(_, _)
PutByName(m, items) ==
  IF items = <<>> THEN m
  ELSE PutByName(MapSet(m, Head(items).name, Head(items)), Tail(items))

RECURSIVE ApplyToServers(_, _, _)
ApplyToServers(insts, servers, ops) ==
  IF servers = <<>> THEN [instances |-> insts, threw |-> FALSE]
  ELSE LET server == Head(servers)
           r == ApplyOps(insts[server], ops)
       IN IF r.threw
            THEN [instances |-> [insts EXCEPT ![server] = r.inst], threw |-> TRUE]
            ELSE ApplyToServers([insts EXCEPT ![server] = r.inst], Tail(servers), ops)
applyThingToAllServers(thing) ==
  ApplyToServers(instances, LiveServers(stdioServer, sessions),
                 ThingOps(toolStrategy, thing))

\* variant: registerThing that returns after the things and properties maps
registerThingPartial(thing) ==
  /\ things' = MapSet(things, thing.id, thing)
  /\ properties' = PutByUri(properties, thing.properties)
  /\ UNCHANGED <<actions, events, buffers>>
  /\ instances' = applyThingToAllServers(thing).instances
\* the synchronous body of registerThing; registerThingThrew tells whether
\* applyThingToAllServers let it return
registerThing(thing) ==
  /\ things' = MapSet(things, thing.id, thing)
  /\ properties' = PutByUri(properties, thing.properties)
  /\ actions' = PutByName(actions, thing.actions)
  /\ events' = PutByUri(events, thing.events)
  /\ buffers' = BufferInitializeAll(buffers, thing.events)
  /\ instances' = applyThingToAllServers(thing).instances
registerThingThrew(thing) == applyThingToAllServers(thing).threw
\* the connected instances that exist when a thing is registered
OwedAfterRegister ==
  listChangedOwed \cup
    {s \in Range(LiveServers(stdioServer, sessions)) : instances[s].transport}

\* what a call of registerThing comes to: it returns, or the exception of
\* a registration on an instance leaves it
Registered(thing) ==
  [kind |-> "registerThing", thing |-> thing, threw |-> registerThingThrew(thing)]
\* McpServer.registerThing called on its own
RegisterThing(thing) ==
  /\ running = 0
  /\ registerThing(thing)
  /\ listChangedOwed' = OwedAfterRegister
  /\ UNCHANGED <<configVars, sessionVars, lastUpdated, now, nextData, taskVars,
                 adds>>
  /\ response' = NoResponse
  /\ caught' = 0
  /\ calls' = calls /\ external' = NoExternal
  /\ result' = Registered(thing)
  /\ UNCHANGED <<translated, shutdown, wotClient>>


\* ------------------------------------------------- notification fan-out
\* variant: the loop without the subscription test
NotifyEveryInstance(method, server, uri) == instances[server].transport
\* the test each fan-out loop makes before it sends to one instance
ShouldNotify(method, server, uri) ==
  /\ instances[server].transport
  /\ \/ method = "notifications/resources/list_changed"
     \/ /\ MapHas(serverSubscriptions, server)
        /\ uri \in MapGet(serverSubscriptions, server)

\* variant: the loop without its try/catch
RethrowSendError(task) == [task EXCEPT !.pc = "rejected"]
\* catch (err) { /* Ignore errors */ }: the loop goes on
CatchSendError(task) == task

NextToNotify(task, from) ==
  LET due == {j \in (from + 1)..Len(task.servers) :
                ShouldNotify(task.method, task.servers[j], task.uri)}
  IN IF due = {} THEN 0 ELSE CHOOSE j \in due : \A k \in due : j <= k

\* the loop runs from position `from` to its next `await`, or to its end
RunLoop(task, from) ==
  LET j == IF task.pc = "rejected" THEN 0 ELSE NextToNotify(task, from) IN
  IF task.pc = "rejected" THEN [task |-> task, told |-> {}]
  ELSE IF j = 0
    THEN [task |-> [task EXCEPT !.pc = "done", !.idx = Len(task.servers)],
          told |-> {}]
    ELSE [task |-> [task EXCEPT !.pc = "await", !.idx = j,
                                !.told = @ \cup {task.servers[j]}],
          told |-> IF task.method = "notifications/resources/list_changed"
                     THEN {task.servers[j]} ELSE {}]

\* a fan-out that has not started, or one whose promise has settled
IdleTasks == {t \in TaskIds : tasks[t].pc \in {"idle", "done"}}
FreeTask == CHOOSE t \in IdleTasks : \A u \in IdleTasks : t <= u

\* handleWotEvent, first statements: build the URI and buffer the event
HandleWotEvent(src) ==
  /\ running = 0
  /\ nextData <= MaxEvents
  /\ IdleTasks # {}
  /\ LET t == FreeTask
         uri == EventUri(src[1], src[2])
         event == [timestamp |-> ToISOString(now), eventType |-> src[2],
                   data |-> nextData]
     IN /\ buffers' = BufferPush(buffers, uri, event)
        /\ lastUpdated' = MapSet(lastUpdated, uri, event.timestamp)
        /\ tasks' = [tasks EXCEPT ![t] =
                       [IdleTask EXCEPT !.pc = "notify",
                                        !.method = "notifications/resources/updated",
                                        !.uri = uri, !.data = nextData]]
        /\ running' = t
  /\ nextData' = nextData + 1
  /\ UNCHANGED <<configVars, sessionVars, instances, registryVars, now,
                 bridgeVars>>
  /\ response' = NoResponse
  /\ caught' = 0
  /\ NoToolStep
  /\ UNCHANGED <<translated, shutdown, wotClient>>

\* handleWotEvent, the rest of its first block: list the instances, start the loop
NotifySubscribed(t) ==
  /\ running = t
  /\ tasks[t].pc = "notify"
  /\ LET task == [tasks[t] EXCEPT !.servers = LiveServers(stdioServer, sessions)]
         r == RunLoop(task, 0)
     IN /\ tasks' = [tasks EXCEPT ![t] = r.task]
  /\ running' = 0
  /\ UNCHANGED <<configVars, sessionVars, instances, registryVars, bufferVars,
                 bridgeVars>>
  /\ response' = NoResponse
  /\ caught' = 0
  /\ NoToolStep
  /\ UNCHANGED <<translated, shutdown, wotClient>>

\* variant: a notification settles only when no device call is pending
NotificationSettledAfterCalls(t, ok) ==
  /\ running = 0
  /\ tasks[t].pc = "await"
  /\ \A c \in CallIds : calls[c].pc = "idle"
  /\ LET task == IF ok THEN tasks[t] ELSE CatchSendError(tasks[t])
         r == RunLoop(task, task.idx)
     IN /\ tasks' = [tasks EXCEPT ![t] = r.task]
        /\ listChangedOwed' = listChangedOwed \ r.told
  /\ UNCHANGED <<configVars, sessionVars, instances, registryVars, bufferVars,
                 running, adds>>
  /\ response' = NoResponse
  /\ caught' = IF ok THEN 0 ELSE t
  /\ NoToolStep
  /\ UNCHANGED <<translated, shutdown, wotClient>>
\* the awaited server.server.notification(...) resolves (ok) or rejects
NotificationSettled(t, ok) ==
  /\ running = 0
  /\ tasks[t].pc = "await"
  /\ LET task == IF ok THEN tasks[t] ELSE CatchSendError(tasks[t])
         r == RunLoop(task, task.idx)
     IN /\ tasks' = [tasks EXCEPT ![t] = r.task]
        /\ listChangedOwed' = listChangedOwed \ r.told
  /\ UNCHANGED <<configVars, sessionVars, instances, registryVars, bufferVars,
                 running, adds>>
  /\ response' = NoResponse
  /\ caught' = IF ok THEN 0 ELSE t
  /\ NoToolStep
  /\ UNCHANGED <<translated, shutdown, wotClient>>

\* notifyResourceListChanged up to its first await, on behalf of addThing `owner`
ListChangedTask(owner) ==
  [IdleTask EXCEPT !.method = "notifications/resources/list_changed",
                   !.servers = LiveServers(stdioServer, sessions),
                   !.owner = owner]

\* McpServer.notifyResourceListChanged called on its own
NotifyResourceListChanged ==
  /\ running = 0
  /\ IdleTasks # {}
  /\ LET t == FreeTask
         r == RunLoop(ListChangedTask(0), 0)
     IN /\ tasks' = [tasks EXCEPT ![t] = r.task]
        /\ listChangedOwed' = listChangedOwed \ r.told
  /\ UNCHANGED <<configVars, sessionVars, instances, registryVars, bufferVars,
                 running, adds>>
  /\ response' = NoResponse
  /\ caught' = 0
  /\ NoToolStep
  /\ UNCHANGED <<translated, shutdown, wotClient>>

\* ------------------------------------------------------ reading events
\* the count readEventResource passes to getRecent: 50 in the source, where
\* eventBufferSize defaults to 100; scaled with MaxEventsPerUri so that a
\* buffer can hold more events than one read returns
ReadRecentCount == 1
BufferSources == {<<<<"l">>, <<"o">>>>, <<<<"m">>, <<"a">>>>}
Counts == 0..(MaxEventsPerUri + 1)
Times == 0..MaxTime

\* the clock advances by a millisecond
Tick ==
  /\ running = 0
  /\ now < MaxTime
  /\ now' = now + 1
  /\ UNCHANGED <<configVars, sessionVars, instances, registryVars, buffers,
                 lastUpdated, nextData, taskVars, bridgeVars, calls>>
  /\ response' = NoResponse
  /\ caught' = 0
  /\ UNCHANGED <<translated, shutdown, wotClient>>
  /\ external' = NoExternal
  /\ result' = NoResult

BufferRead(op, uri, arg, got) ==
  /\ running = 0
  /\ buffers' = got.buffers
  /\ result' = [kind |-> "events", op |-> op, uri |-> uri, arg |-> arg,
                events |-> got.events]
  /\ UNCHANGED <<configVars, sessionVars, instances, registryVars, lastUpdated,
                 now, nextData, taskVars, bridgeVars, calls>>
  /\ response' = NoResponse
  /\ caught' = 0
  /\ UNCHANGED <<translated, shutdown, wotClient>>
  /\ external' = NoExternal
Get(uri) == BufferRead("get", uri, <<>>, BufferGet(buffers, uri, now))
GetSince(uri, since) ==
  BufferRead("getSince", uri, <<since>>, BufferGetSince(buffers, uri, since, now))
GetRecent(uri, count) ==
  BufferRead("getRecent", uri, <<count>>, BufferGetRecent(buffers, uri, count, now))
\* count(uri) and has(uri) are called: they read the buffer as it is
BufferAsk(answer) ==
  /\ running = 0
  /\ result' = answer
  /\ UNCHANGED <<configVars, sessionVars, instances, registryVars, bufferVars,
                 taskVars, bridgeVars, calls>>
  /\ response' = NoResponse
  /\ caught' = 0
  /\ UNCHANGED <<translated, shutdown, wotClient>>
  /\ external' = NoExternal
Count(uri) ==
  BufferAsk([kind |-> "count", uri |-> uri, count |-> BufferCount(buffers, uri)])
Has(uri) ==
  BufferAsk([kind |-> "has", uri |-> uri, has |-> BufferHas(buffers, uri)])

\* the read callback of an event resource
readEventResource(bufs, lasts, event, at) ==
  LET got == BufferGetRecent(bufs, event.uri, ReadRecentCount, at) IN
  [buffers |-> got.buffers,
   contents |-> [uri |-> event.uri, events |-> got.events,
                 totalCount |-> BufferCount(got.buffers, event.uri),
                 lastUpdated |-> IF MapHas(lasts, event.uri)
                                   THEN <<MapGet(lasts, event.uri)>> ELSE <<>>]]
ReadEventResource(server, uri) ==
  /\ running = 0
  /\ Reachable(server)
  /\ uri \in instances[server].resources
  /\ MapHas(events, uri)
  /\ LET read == readEventResource(buffers, lastUpdated, MapGet(events, uri), now) IN
       /\ buffers' = read.buffers
       /\ result' = [kind |-> "resource", contents |-> read.contents]
  /\ UNCHANGED <<configVars, sessionVars, instances, registryVars, lastUpdated,
                 now, nextData, taskVars, bridgeVars, calls>>
  /\ response' = NoResponse
  /\ caught' = 0
  /\ UNCHANGED <<translated, shutdown, wotClient>>
  /\ external' = NoExternal

\* ------------------------------------------------------------ tool calls
\* things whose tools are called: Fan has a read-only and a writable
\* property, an action with a wrapped input and one without; Valve has an
\* action whose tool name is the name of its property's getter
Fan ==
  [id |-> <<"f">>,
   properties |-> <<TranslatedProperty(<<"f">>, <<"r">>, FALSE),
                    TranslatedProperty(<<"f">>, <<"w">>, TRUE)>>,
   actions |-> <<TranslatedAction(<<"f">>, <<"p">>, TRUE),
                 TranslatedAction(<<"f">>, <<"u">>, FALSE)>>,
   events |-> <<TranslatedEvent(<<"f">>, <<"e">>)>>]
Valve ==
  [id |-> <<"v">>,
   properties |-> <<TranslatedProperty(<<"v">>, <<"s">>, FALSE)>>,
   actions |-> <<TranslatedAction(<<"v">>, <<"g", "e", "t", "_", "s">>, FALSE)>>,
   events |-> <<TranslatedEvent(<<"v">>, <<"c">>)>>]
ToolCatalog == {Fan, Valve}

\* setCallbacks has run: the bridge calls it in its constructor
CallbacksSet == TRUE

\* the arguments a client sends
ArgValues ==
  {JUndefined, JNumber(42), JObject(7, <<>>),
   JObject(0, <<JNumber(42)>>), JObject(0, <<JNumber(0)>>)}
\* device_id and property_name or action_name: those of the catalogue, an
\* unknown device, an unknown member
Targets ==
  UNION {{<<thing.id, thing.properties[i].wotName>> : i \in 1..Len(thing.properties)}
         \cup {<<thing.id, thing.actions[i].wotName>> : i \in 1..Len(thing.actions)} :
         thing \in ToolCatalog}
  \cup {<<<<"x">>, <<"r">>>>, <<<<"f">>, <<"z">>>>}
ExplicitToolNames ==
  UNION {{GetterToolName(thing.id, thing.properties[i].wotName) :
            i \in 1..Len(thing.properties)}
         \cup {SetterToolName(thing.id, thing.properties[i].wotName) :
            i \in 1..Len(thing.properties)}
         \cup {ActionToolName(thing.id, thing.actions[i].wotName) :
            i \in 1..Len(thing.actions)} :
         thing \in ToolCatalog}
ExplicitRequests ==
  {[tool |-> name, device_id |-> <<>>, member |-> <<>>, args |-> args] :
     name \in ExplicitToolNames, args \in ArgValues \ {JUndefined, JNumber(42)}}
ReadPropertyTool == <<"r", "e", "a", "d", "_", "p", "r", "o", "p", "e", "r", "t", "y">>
WritePropertyTool == <<"w", "r", "i", "t", "e", "_", "p", "r", "o", "p", "e", "r", "t", "y">>
InvokeActionTool == <<"i", "n", "v", "o", "k", "e", "_", "a", "c", "t", "i", "o", "n">>
ListDevicesTool == <<"l", "i", "s", "t", "_", "d", "e", "v", "i", "c", "e", "s">>
\* for write_property `args` is the object that holds `value`, for
\* invoke_action it is `params`
GenericRequests ==
  {[tool |-> name, device_id |-> target[1], member |-> target[2], args |-> args] :
     name \in {WritePropertyTool, InvokeActionTool}, target \in Targets,
     args \in ArgValues}
  \cup {[tool |-> ReadPropertyTool, device_id |-> target[1], member |-> target[2],
         args |-> JUndefined] : target \in Targets}
  \cup {[tool |-> ListDevicesTool, device_id |-> <<>>, member |-> <<>>,
         args |-> JUndefined]}
Requests == ExplicitRequests \cup GenericRequests

\* array.find, and the first index of a Map's values that satisfies Test
Find(arr, Test(_)) ==
  LET hits == {i \in 1..Len(arr) : Test(arr[i])} IN
  IF hits = {} THEN <<>> ELSE <<arr[CHOOSE i \in hits : \A j \in hits : i <= j]>>

\* what a handler does up to its first await: it throws, or it calls a
\* device function
Threw == [outcome |-> "throw", external |-> NoExternal]
Calling(fn, thingId, name, value) ==
  [outcome |-> "call",
   external |-> [fn |-> fn, thingId |-> thingId, name |-> name, value |-> value,
                 call |-> 0]]
invokePropertyGetter(prop) ==
  LET parts == SearchPropertyUri(prop.uri) IN
  IF ~CallbacksSet \/ parts = <<>> THEN Threw
  ELSE Calling("read", parts[1], parts[2], JUndefined)
invokePropertySetter(prop, args) ==
  LET parts == SearchPropertyUri(prop.uri) IN
  IF ~CallbacksSet \/ parts = <<>> THEN Threw
  ELSE Calling("write", parts[1], parts[2], ValueOf(args))
\* variant: the arguments are passed on as they are
invokeActionToolUnwrapNever(action, args) ==
  IF ~CallbacksSet THEN Threw
  ELSE Calling("invoke", action.thingId, action.wotName, args)
invokeActionTool(action, args) ==
  IF ~CallbacksSet THEN Threw
  ELSE Calling("invoke", action.thingId, action.wotName,
               IF action.inputWrapped /\ Truthy(args) THEN ValueOf(args) ELSE args)

\* the handler an explicit tool name was registered with: the callbacks of
\* the getters and setters come before those of the actions
ExplicitHandler(name, args) ==
  LET getter == Find(MapValues(properties),
                     LAMBDA prop : registerPropertyGetterToolOnServer(prop).name = name)
      setter == Find(MapValues(properties),
                     LAMBDA prop : /\ prop.writable
                                   /\ registerPropertySetterToolOnServer(prop).name = name)
      action == Find(MapValues(actions),
                     LAMBDA act : registerActionToolOnServer(act).name = name)
  IN IF getter # <<>> THEN invokePropertyGetter(getter[1])
     ELSE IF setter # <<>> THEN invokePropertySetter(setter[1], args)
     ELSE IF action # <<>> THEN invokeActionTool(action[1], args)
     ELSE Threw

\* variant: write_property without the read-only test
WritableAlways(prop) == TRUE
Writable(prop) == prop.writable
\* the try blocks of read_property, write_property and invoke_action
GenericHandler(req) ==
  LET thing == IF MapHas(things, req.device_id)
                 THEN <<MapGet(things, req.device_id)>> ELSE <<>>
      prop == IF thing = <<>> THEN <<>>
              ELSE Find(thing[1].properties, LAMBDA p : p.wotName = req.member)
      action == IF thing = <<>> THEN <<>>
                ELSE Find(thing[1].actions, LAMBDA a : a.wotName = req.member)
      name == req.tool
  IN IF name = ReadPropertyTool
       THEN IF prop = <<>> THEN Threw ELSE invokePropertyGetter(prop[1])
     ELSE IF name = WritePropertyTool
       THEN IF prop = <<>> THEN Threw
            ELSE IF ~Writable(prop[1]) THEN Threw
            ELSE invokePropertySetter(prop[1], JObject(0, <<ValueOf(req.args)>>))
     ELSE IF name = InvokeActionTool
       THEN IF action = <<>> THEN Threw ELSE invokeActionTool(action[1], req.args)
     ELSE [outcome |-> "return", external |-> NoExternal]

\* what the caller gets: the handler returned a result, or it rejected and
\* the SDK made the error result, or the SDK found no tool of that name
ToolResult(req, handler, isError) ==
  [kind |-> "tool", request |-> req, handler |-> handler, isError |-> isError]
\* variant: a handler without try/catch
RejectAlways(via) == "rejected"
\* the generic handlers catch and return the error result, the explicit
\* ones are `return this.invoke...(...)` and reject
OnFailure(via) == IF via = "generic" THEN "returned" ELSE "rejected"

\* tools/call on an instance, up to the handler's await
CallTool(c, server, req) ==
  /\ running = 0
  /\ Reachable(server)
  /\ calls[c].pc = "idle"
  /\ \A d \in CallIds : d < c => calls[d].pc # "idle"   \* the first free slot
  /\ IF req.tool \notin instances[server].tools
       THEN /\ result' = ToolResult(req, "none", TRUE)
            /\ external' = NoExternal
            /\ calls' = calls
       ELSE LET via == IF req.tool \in GenericTools /\ toolStrategy = "generic"
                         THEN "generic" ELSE "explicit"
                did == IF via = "generic" THEN GenericHandler(req)
                       ELSE ExplicitHandler(req.tool, req.args)
            IN CASE did.outcome = "call" ->
                      /\ calls' = [calls EXCEPT ![c] =
                                     [pc |-> "await", via |-> via, request |-> req]]
                      /\ external' = [did.external EXCEPT !.call = c]
                      /\ result' = NoResult
                 [] did.outcome = "throw" ->
                      /\ calls' = calls
                      /\ external' = NoExternal
                      /\ result' = ToolResult(req, OnFailure(via), TRUE)
                 [] OTHER ->
                      /\ calls' = calls
                      /\ external' = NoExternal
                      /\ result' = ToolResult(req, "returned", FALSE)
  /\ UNCHANGED <<configVars, sessionVars, instances, registryVars, bufferVars,
                 taskVars, bridgeVars>>
  /\ response' = NoResponse
  /\ caught' = 0
  /\ UNCHANGED <<translated, shutdown, wotClient>>

\* the device function resolves (ok) or rejects
ExternalSettled(c, ok) ==
  /\ running = 0
  /\ calls[c].pc = "await"
  /\ calls' = [calls EXCEPT ![c] = NoCall]
  /\ external' = NoExternal
  /\ result' = IF ok THEN ToolResult(calls[c].request, "returned", FALSE)
               ELSE ToolResult(calls[c].request, OnFailure(calls[c].via), TRUE)
  /\ UNCHANGED <<configVars, sessionVars, instances, registryVars, bufferVars,
                 taskVars, bridgeVars>>
  /\ response' = NoResponse
  /\ caught' = 0
  /\ UNCHANGED <<translated, shutdown, wotClient>>

\* ------------------------------------------------------ ThingTranslator
\* A thing description: id is <<>> or <<string>>, title a string, actions
\* <<>> (no `actions` member) or <<entries>>, an entry being a name and an
\* affordance whose input is <<>> or <<schema>>.  A schema has a type ("" if
\* it has none), properties (<<>> or <<entries>>) and required (<<>> or
\* <<names>>).
Schema(type, props, required) ==
  [type |-> type, properties |-> props, required |-> required]

UpperCase ==
  <<"A", "B", "C", "D", "E", "F", "G", "H", "I", "J", "K", "L", "M", "N", "O",
    "P", "Q", "R", "S", "T", "U", "V", "W", "X", "Y", "Z">>
LowerCase ==
  <<"a", "b", "c", "d", "e", "f", "g", "h", "i", "j", "k", "l", "m", "n", "o",
    "p", "q", "r", "s", "t", "u", "v", "w", "x", "y", "z">>
toLowerCase(str) ==
  [i \in 1..Len(str) |->
     IF str[i] \in Range(UpperCase)
       THEN LowerCase[CHOOSE k \in 1..Len(UpperCase) : UpperCase[k] = str[i]]
       ELSE str[i]]

\* str.replace(/[^a-z0-9]/g, '-'): every other character on its own
RECURSIVE ReplaceEach(_)
ReplaceEach(str) ==
  IF str = <<>> THEN <<>>
  ELSE <<IF Head(str) \in AlnumChars THEN Head(str) ELSE "-">> \o ReplaceEach(Tail(str))
\* str.replace(/[^a-z0-9]+/g, '-'): a match is a longest run of other characters
RECURSIVE SkipRun(_)
SkipRun(str) ==
  IF str = <<>> \/ Head(str) \in AlnumChars THEN str ELSE SkipRun(Tail(str))
RECURSIVE ReplaceRuns(_)
ReplaceRuns(str) ==
  IF str = <<>> THEN <<>>
  ELSE IF Head(str) \in AlnumChars
    THEN <<Head(str)>> \o ReplaceRuns(Tail(str))
    ELSE <<"-">> \o ReplaceRuns(SkipRun(str))
\* str.replace(/^-|-$/g, ''): one hyphen at the start, then one at the end of
\* what follows it
TrimHyphens(str) ==
  LET rest == IF str # <<>> /\ Head(str) = "-" THEN Tail(str) ELSE str
  IN IF rest # <<>> /\ rest[Len(rest)] = "-"
       THEN SubSeq(rest, 1, Len(rest) - 1) ELSE rest
sanitizeId(str) == TrimHyphens(ReplaceRuns(toLowerCase(str)))

\* str.split(/[:/]/)
RECURSIVE SplitFrom(_, _, _)
SplitFrom(str, part, parts) ==
  IF str = <<>> THEN Append(parts, part)
  ELSE IF Head(str) \in {":", "/"}
    THEN SplitFrom(Tail(str), <<>>, Append(parts, part))
    ELSE SplitFrom(Tail(str), Append(part, Head(str)), parts)
split(str) == SplitFrom(str, <<>>, <<>>)
\* `if (td.id)`: a missing identifier and the empty string are both falsy
extractThingId(td) ==
  IF td.id # <<>> /\ td.id[1] # <<>>
    THEN LET parts == split(td.id[1]) IN sanitizeId(parts[Len(parts)])
    ELSE sanitizeId(td.title)

\* WotClient.extractThingId, the key under which consume stores the thing:
\* no trimming of hyphens
WotClientExtractThingId(td) ==
  IF td.id # <<>> /\ td.id[1] # <<>>
    THEN LET parts == split(td.id[1]) IN ReplaceRuns(toLowerCase(parts[Len(parts)]))
    ELSE ReplaceRuns(toLowerCase(td.title))

ValueName == <<"v", "a", "l", "u", "e">>
buildActionInputSchemaByProperties(input) ==
  IF input = <<>>
    THEN [inputSchema |-> Schema("object", <<<<>>>>, <<>>), inputWrapped |-> FALSE]
  ELSE LET schema == input[1]
       IN IF schema.properties # <<>>
            THEN [inputSchema |-> Schema("object", schema.properties, schema.required),
                  inputWrapped |-> FALSE]
            ELSE [inputSchema |->
                    Schema("object", <<<<<<ValueName, schema>>>>>>, <<<<ValueName>>>>),
                  inputWrapped |-> TRUE]
buildActionInputSchema(input) ==
  IF input = <<>>
    THEN [inputSchema |-> Schema("object", <<<<>>>>, <<>>), inputWrapped |-> FALSE]
  ELSE LET schema == input[1]
       IN IF schema.type = "object" /\ schema.properties # <<>>
            THEN [inputSchema |-> Schema("object", schema.properties, schema.required),
                  inputWrapped |-> FALSE]
            ELSE [inputSchema |->
                    Schema("object", <<<<<<ValueName, schema>>>>>>, <<<<ValueName>>>>),
                  inputWrapped |-> TRUE]
translateActions(thingId, td) ==
  IF td.actions = <<>> THEN <<>>
  ELSE [i \in 1..Len(td.actions[1]) |->
          LET name == td.actions[1][i][1]
              built == buildActionInputSchema(td.actions[1][i][2].input)
          IN [name |-> thingId \o <<"_">> \o name,
              inputSchema |-> built.inputSchema,
              wotName |-> name,
              thingId |-> thingId,
              inputWrapped |-> built.inputWrapped]]
\* Object.entries(td.properties).map(...): an entry of td.properties is a
\* name and an affordance with its readOnly flag
translateProperties(thingId, td) ==
  IF td.properties = <<>> THEN <<>>
  ELSE [i \in 1..Len(td.properties[1]) |->
          LET name == td.properties[1][i][1]
              prop == td.properties[1][i][2]
          IN [uri |-> WotScheme \o thingId \o PropertiesSeg \o name,
              wotName |-> name,
              writable |-> ~prop.readOnly]]
translate(td) ==
  LET thingId == extractThingId(td)
  IN [id |-> thingId, title |-> td.title,
      properties |-> translateProperties(thingId, td),
      actions |-> translateActions(thingId, td)]

\* the descriptions handed to addThing; consumedId is the key of the thing
\* in WotClient.consumedThings
IdAlphabet == {"a", "B", "1", ":", "/", "_", "-"}
RECURSIVE Strings(_, _)
Strings(alphabet, n) ==
  IF n = 0 THEN {<<>>}
  ELSE LET shorter == Strings(alphabet, n - 1)
       IN shorter \cup {Append(str, c) : str \in shorter, c \in alphabet}
LightId ==
  <<"u", "r", "n", ":", "d", "e", "v", ":", "o", "p", "s", ":",
    "M", "y", " ", "L", "i", "g", "h", "t", "_", "0", "1">>
Identifiers ==
  {<<>>} \cup {<<str>> : str \in Strings(IdAlphabet, MaxIdLen) \cup {LightId}}
Titles == {<<"T", "_", "2">>, <<" ", "x", " ">>}
NumberSchema == Schema("number", <<>>, <<>>)
LevelName == <<"l", "e", "v", "e", "l">>
LevelProperties == <<<<LevelName, NumberSchema>>>>
ActionInputs ==
  {<<>>,
   <<NumberSchema>>,
   <<Schema("string", <<>>, <<>>)>>,
   <<Schema("array", <<>>, <<>>)>>,
   <<Schema("object", <<>>, <<>>)>>,
   <<Schema("object", <<<<>>>>, <<>>)>>,
   <<Schema("object", <<LevelProperties>>, <<>>)>>,
   <<Schema("object", <<LevelProperties>>, <<<<LevelName>>>>)>>,
   <<Schema("", <<LevelProperties>>, <<>>)>>,
   <<Schema("", <<>>, <<>>)>>}
ActionSets ==
  {<<>>} \cup {<<<<<<<<"a">>, [input |-> input]>>>>>> : input \in ActionInputs}
\* descriptions with a property: names with a slash, a line break, the look
\* of an identifier, and the empty name; identifiers whose last segment is
\* empty
PropertyNames ==
  {<<"p">>, <<>>, <<"a", "/", "b">>, <<"p", "\n", "q">>,
   PropertyUri(<<"x">>, <<"y">>)}
PropertySets ==
  {<<<<<<name, [readOnly |-> ro]>>>>>> : name \in PropertyNames, ro \in BOOLEAN}
PropertyIdentifiers == {<<>>, <<<<"a">>>>, <<<<":">>>>, <<<<"B", "/">>>>, <<<<"/", "a">>>>}
PropertyDescriptions ==
  {[id |-> id, title |-> title, properties |-> props, actions |-> <<>>] :
     id \in PropertyIdentifiers, title \in Titles, props \in PropertySets}
Descriptions ==
  {[id |-> id, title |-> title, properties |-> <<>>, actions |-> acts] :
     id \in Identifiers, title \in Titles, acts \in ActionSets}
  \cup PropertyDescriptions

\* addThing: client.consume has returned the description
Consumed ==
  /\ running = 0
  /\ translated.pc = "idle"
  /\ \E td \in Descriptions :
       translated' = [NoTranslation EXCEPT !.pc = "consumed", !.td = td,
                                           !.consumedId = <<WotClientExtractThingId(td)>>]
  /\ UNCHANGED <<configVars, sessionVars, instances, registryVars, bufferVars,
                 taskVars, bridgeVars>>
  /\ response' = NoResponse
  /\ caught' = 0
  /\ NoToolStep
  /\ UNCHANGED <<shutdown, wotClient>>
\* this.translator.translate(td)
Translate ==
  /\ running = 0
  /\ translated.pc = "consumed"
  /\ translated' = [translated EXCEPT !.pc = "translated",
                                      !.thing = translate(translated.td)]
  /\ UNCHANGED <<configVars, sessionVars, instances, registryVars, bufferVars,
                 taskVars, bridgeVars>>
  /\ response' = NoResponse
  /\ caught' = 0
  /\ NoToolStep
  /\ UNCHANGED <<shutdown, wotClient>>
\* the getter of a property of the translated thing is called, or the
\* setter of a writable one: the handler up to its await of the device
\* function, or its throw
InvokeTranslated(i, fn) ==
  /\ running = 0
  /\ translated.pc = "translated"
  /\ i \in 1..Len(translated.thing.properties)
  /\ fn = "write" => translated.thing.properties[i].writable
  /\ LET prop == translated.thing.properties[i]
         handler == IF fn = "read" THEN invokePropertyGetter(prop)
                    ELSE invokePropertySetter(prop, JObject(0, <<JNumber(42)>>))
     IN /\ external' = handler.external
        /\ result' = [kind |-> "invoke", fn |-> fn, index |-> i,
                      outcome |-> handler.outcome]
  /\ UNCHANGED <<configVars, sessionVars, instances, registryVars, bufferVars,
                 taskVars, bridgeVars, calls, translated, shutdown, wotClient>>
  /\ response' = NoResponse
  /\ caught' = 0

\* ------------------------------------------------ WotClient.subscribeEvent
\* a step of the WoT client leaves the MCP server and the bridge alone
ClientStep ==
  /\ running = 0
  /\ UNCHANGED <<configVars, sessionVars, instances, registryVars, bufferVars,
                 taskVars, bridgeVars, calls, translated, shutdown>>
  /\ response' = NoResponse
  /\ caught' = 0
  /\ external' = NoExternal
  /\ result' = NoResult
\* subscribeEvent up to its first await: `await thingSubs.get(eventName).stop()`
\* when a subscription is stored, `await wrapper.thing.subscribeEvent` if not
SubscribeEventBegun(wc, c, key) ==
  [wc EXCEPT !.calls[c] =
               IF wc.tracked[key] # 0
                 THEN [pc |-> "stopping", key |-> key, sub |-> wc.tracked[key]]
                 ELSE [pc |-> "subscribing", key |-> key, sub |-> 0],
             !.delivered = 0]
SubscribeEvent(c, key) ==
  /\ wotClient.calls[c].pc = "idle"
  /\ \A d \in SubscribeIds : d < c => wotClient.calls[d].pc # "idle"
  /\ wotClient' = SubscribeEventBegun(wotClient, c, key)
  /\ ClientStep
\* the stop of the stored subscription has settled: the call goes on to
\* `await wrapper.thing.subscribeEvent`, or throws
SubscriptionStopped(c, ok) ==
  /\ wotClient.calls[c].pc = "stopping"
  /\ wotClient' =
       IF ok THEN [wotClient EXCEPT !.active = @ \ {wotClient.calls[c].sub},
                                    !.calls[c].pc = "subscribing",
                                    !.delivered = 0]
       ELSE [wotClient EXCEPT !.calls[c].pc = "failed", !.delivered = 0]
  /\ ClientStep
\* the device's subscribeEvent has settled: thingSubs.set(eventName, sub)
EventSubscribed(c, ok) ==
  /\ wotClient.calls[c].pc = "subscribing"
  /\ wotClient' =
       IF ok
         THEN LET sub == Len(wotClient.made) + 1
                  key == wotClient.calls[c].key
              IN [wotClient EXCEPT !.made = Append(@, key),
                                   !.active = @ \cup {sub},
                                   !.tracked[key] = sub,
                                   !.calls[c] = [pc |-> "done", key |-> key, sub |-> sub],
                                   !.delivered = 0]
         ELSE [wotClient EXCEPT !.calls[c].pc = "failed", !.delivered = 0]
  /\ ClientStep
\* the device emits an event: every subscription of it that is not stopped
\* runs its listener, which calls the callback
DeviceEvent(key) ==
  /\ LET listening == {sub \in wotClient.active : wotClient.made[sub] = key}
     IN /\ listening # {}
        /\ wotClient' = [wotClient EXCEPT !.delivered = Cardinality(listening)]
  /\ ClientStep

\* ------------------------------------------------------ McpServer.stop
\* `for (const [id, session] of this.sessions)`: a Map iterator goes on to the
\* first entry it has not visited, entries added while it runs included
NextSession(sess, visited) ==
  LET left == {i \in 1..Len(sess) : sess[i][1] \notin visited}
  IN IF left = {} THEN 0 ELSE CHOOSE i \in left : \A j \in left : i <= j
Stopping ==
  [sessions |-> sessions, subs |-> serverSubscriptions, instances |-> instances,
   owed |-> listChangedOwed, http |-> httpServer, stdio |-> stdioServer,
   sd |-> shutdown]
Logged(sd, what, id, ok) ==
  [sd EXCEPT !.log = Append(@, [what |-> what, id |-> id, ok |-> ok])]
\* `if (this.stdioServer) { await this.stdioServer.close(); ... }`
StopStdio(st) ==
  IF st.stdio # <<>>
    THEN [st EXCEPT !.instances[StdioServer].transport = FALSE,
                    !.sd = [Logged(st.sd, "stdio", 0, TRUE) EXCEPT !.pc = "stdio"]]
    ELSE [st EXCEPT !.sd.pc = "done"]
\* the body of the loop up to its await: transport.close() is called; ok
\* tells whether it runs through, and then onclose has run
CloseNext(st, i, ok) ==
  LET id == st.sessions[i][1]
      session == st.sessions[i][2]
      sd == [Logged(st.sd, "session", id, ok) EXCEPT
               !.pc = "closing", !.visited = @ \cup {id}]
  IN IF ok
       THEN [st EXCEPT !.sessions = OnCloseSessions(@, id),
                       !.subs = OnCloseSubscriptions(@, session.server),
                       !.instances[session.server].transport = FALSE,
                       !.owed = @ \ {session.server},
                       !.sd = sd]
       ELSE [st EXCEPT !.sd = sd]
\* after the loop: sessions.clear(), httpServer = undefined, serverInstance.close(cb)
AfterLoop(st) ==
  IF st.http
    THEN [st EXCEPT !.sessions = <<>>, !.http = FALSE,
                    !.sd = [Logged(st.sd, "listener", 0, TRUE) EXCEPT !.pc = "listener"]]
    ELSE StopStdio(st)
\* variant: the loop without its try/catch, a failed close ends stop
StopRunUntilError(st, ok) ==
  LET i == NextSession(st.sessions, st.sd.visited)
      log == st.sd.log
  IN IF log # <<>> /\ log[Len(log)].what = "session" /\ ~log[Len(log)].ok
       THEN [st EXCEPT !.sd.pc = "rejected"]
     ELSE IF st.http /\ i # 0 THEN CloseNext(st, i, ok)
     ELSE AfterLoop(st)
\* stop from the head of its loop to its next await
StopRun(st, ok) ==
  LET i == NextSession(st.sessions, st.sd.visited)
  IN IF st.http /\ i # 0 THEN CloseNext(st, i, ok) ELSE AfterLoop(st)
StopTo(st) ==
  /\ sessions' = st.sessions
  /\ serverSubscriptions' = st.subs
  /\ instances' = st.instances
  /\ listChangedOwed' = st.owed
  /\ httpServer' = st.http
  /\ stdioServer' = st.stdio
  /\ shutdown' = st.sd
  /\ UNCHANGED <<toolStrategy, connecting, issued, registryVars, bufferVars,
                 taskVars, adds, translated, wotClient>>
  /\ response' = NoResponse
  /\ caught' = 0
  /\ NoToolStep
\* stop is called: serverSubscriptions.clear(), then the loop up to its first await
StopCalled(bridge, ok) ==
  /\ running = 0
  /\ shutdown.pc = "idle" /\ shutdown.bridge = "idle"
  /\ StopTo(StopRun([Stopping EXCEPT !.subs = <<>>,
                                     !.sd.bridge = bridge,
                                     !.sd.atCall = MapKeySet(sessions)], ok))
McpStop(ok) == StopCalled("idle", ok)
\* `await session.transport.close()` has settled, the rejection caught
StopResumed(ok) ==
  /\ running = 0
  /\ shutdown.pc = "closing"
  /\ StopTo(StopRun(Stopping, ok))
\* the callback of serverInstance.close: with an error stop rejects
ListenerClosed(ok) ==
  /\ running = 0
  /\ shutdown.pc = "listener"
  /\ StopTo(IF ok THEN StopStdio(Stopping) ELSE [Stopping EXCEPT !.sd.pc = "rejected"])
\* `await this.stdioServer.close()` has settled
StdioClosed(ok) ==
  /\ running = 0
  /\ shutdown.pc = "stdio"
  /\ StopTo(IF ok THEN [Stopping EXCEPT !.stdio = <<>>, !.sd.pc = "done"]
            ELSE [Stopping EXCEPT !.sd.pc = "rejected"])

\* ---------------------------------------------------- WotMcpBridge.stop
\* try { await this.mcpServer.stop() } catch (err) { logger.error(...) }
BridgeStop(ok) == StopCalled("server", ok)
\* variant: a failed stop of the server ends stop
ClientStopUnlessFailed ==
  /\ running = 0
  /\ shutdown.bridge = "server"
  /\ shutdown.pc \in {"done", "rejected"}
  /\ StopTo(IF shutdown.pc = "done"
              THEN [Stopping EXCEPT !.sd = [Logged(shutdown, "client", 0, TRUE) EXCEPT
                                              !.bridge = "client"]]
              ELSE [Stopping EXCEPT !.sd.bridge = "rejected"])
\* await this.client.stop(), reached whether mcpServer.stop resolved or rejected
ClientStop ==
  /\ running = 0
  /\ shutdown.bridge = "server"
  /\ shutdown.pc \in {"done", "rejected"}
  /\ StopTo([Stopping EXCEPT !.sd = [Logged(shutdown, "client", 0, TRUE) EXCEPT
                                        !.bridge = "client"]])
\* WotClient.stop has settled
ClientStopSettled(ok) ==
  /\ running = 0
  /\ shutdown.bridge = "client"
  /\ StopTo([Stopping EXCEPT !.sd.bridge = IF ok THEN "done" ELSE "rejected"])

\* start has no test of what was started before: each mode once
StartEach(mode) ==
  /\ shutdown.pc = "idle" /\ shutdown.bridge = "idle"
  /\ IF mode = "stdio" THEN stdioServer = <<>> ELSE ~httpServer
  /\ StartMode(mode)

\* ------------------------------------------------- WotMcpBridge.addThing
\* addThing is called: it awaits client.consume
AddThing(a, thing) ==
  /\ running = 0
  /\ adds[a].pc = "idle"
  /\ adds' = [adds EXCEPT ![a] = [IdleAdd EXCEPT !.pc = "consume", !.thing = thing]]
  /\ UNCHANGED <<configVars, sessionVars, instances, registryVars, bufferVars,
                 taskVars, listChangedOwed>>
  /\ response' = NoResponse
  /\ caught' = 0
  /\ NoToolStep
  /\ UNCHANGED <<translated, shutdown, wotClient>>

\* consume rejects, or resolves: translate, registerThing, then
\* `await subscribeAllEvents` when the description has events
ConsumeSettled(a, ok) ==
  /\ running = 0
  /\ adds[a].pc = "consume"
  /\ LET thing == adds[a].thing IN
     IF ~ok
       THEN /\ adds' = [adds EXCEPT ![a].pc = "failed"]
            /\ UNCHANGED <<registryVars, buffers, instances, listChangedOwed>>
       ELSE /\ registerThing(thing)
            /\ listChangedOwed' = OwedAfterRegister
            /\ adds' = [adds EXCEPT ![a].pc =
                          IF registerThingThrew(thing) THEN "failed" ELSE "subscribe"]
  /\ UNCHANGED <<configVars, sessionVars, lastUpdated, now, nextData, taskVars>>
  /\ response' = NoResponse
  /\ caught' = 0
  /\ NoToolStep
  /\ UNCHANGED <<translated, shutdown, wotClient>>

\* subscribeAllEvents rejects, or resolves: `await notifyResourceListChanged()`
SubscribeAllSettled(a, ok) ==
  /\ running = 0
  /\ adds[a].pc = "subscribe"
  /\ IF ~ok
       THEN /\ adds' = [adds EXCEPT ![a].pc = "failed"]
            /\ UNCHANGED <<tasks, listChangedOwed>>
       ELSE /\ IdleTasks # {}
            /\ LET t == FreeTask
                   r == RunLoop(ListChangedTask(a), 0)
               IN /\ tasks' = [tasks EXCEPT ![t] = r.task]
                  /\ listChangedOwed' = listChangedOwed \ r.told
                  /\ adds' = [adds EXCEPT ![a].pc = "notify", ![a].task = t]
  /\ UNCHANGED <<configVars, sessionVars, instances, registryVars, bufferVars,
                 running>>
  /\ response' = NoResponse
  /\ caught' = 0
  /\ NoToolStep
  /\ UNCHANGED <<translated, shutdown, wotClient>>

\* notifyResourceListChanged has returned: addThing returns the thing
AddThingReturn(a) ==
  /\ running = 0
  /\ adds[a].pc = "notify"
  /\ tasks[adds[a].task].pc \in {"done", "rejected"}
  /\ adds' = [adds EXCEPT ![a].pc =
                IF tasks[adds[a].task].pc = "done" THEN "done" ELSE "failed"]
  /\ UNCHANGED <<configVars, sessionVars, instances, registryVars, bufferVars,
                 taskVars, listChangedOwed>>
  /\ response' = NoResponse
  /\ caught' = 0
  /\ NoToolStep
  /\ UNCHANGED <<translated, shutdown, wotClient>>

\* ------------------------------------------------------- specifications
InitializeRequest == [method |-> "POST", initialize |-> TRUE]
SubscriptionRpcs == {rpc \in Rpcs : rpc.uri # <<>>}
Modes == {"stdio", "streamable-http"}
\* the default strategy: config.toolStrategy is not set
InitExplicit == Init /\ toolStrategy = "explicit"

\* the /mcp handler: requests with and without a session identifier
SessionNext ==
  \/ \E mode \in Modes : Start(mode)
  \/ \E req \in NoSessionRequests : NewSessionRequest(req)
  \/ \E sid \in SessionIds : ConnectResolved(sid)
  \/ \E sid \in SessionIds, rpc \in Rpcs : SessionRequest(sid, rpc)
  \/ \E sid \in SessionIds : SessionDelete(sid)
  \/ \E sid \in 1..(MaxSessions + 1) : UnknownSessionRequest(sid)
SpecSessions == Init /\ [][SessionNext]_vars

\* sessions that are created while things are registered
RegistryNext ==
  \/ \E mode \in Modes : Start(mode)
  \/ NewSessionRequest(InitializeRequest)
  \/ \E sid \in SessionIds : ConnectResolved(sid)
  \/ \E sid \in SessionIds : SessionDelete(sid)
  \/ \E thing \in ThingCatalog : RegisterThing(thing)
SpecRegistry == Init /\ [][RegistryNext]_vars

\* a second description of the lamp: same id, the property s gone, b no
\* longer writable, no action
Relamped ==
  [id |-> <<"l">>,
   properties |-> <<TranslatedProperty(<<"l">>, <<"b">>, FALSE)>>,
   actions |-> <<>>,
   events |-> <<TranslatedEvent(<<"l">>, <<"o">>)>>]
\* things registered again, with and without instances, events in between
ReregisterNext ==
  \/ \E mode \in Modes : Start(mode)
  \/ NewSessionRequest(InitializeRequest)
  \/ \E sid \in SessionIds : ConnectResolved(sid)
  \/ \E sid \in SessionIds : SessionDelete(sid)
  \/ \E thing \in {Lamp, Relamped} : RegisterThing(thing)
SpecReregister == Init /\ [][ReregisterNext]_vars

\* device events, list-changed broadcasts and their fan-out
FanoutNext ==
  \/ \E mode \in Modes : Start(mode)
  \/ NewSessionRequest(InitializeRequest)
  \/ \E sid \in SessionIds : ConnectResolved(sid)
  \/ \E sid \in SessionIds : SessionDelete(sid)
  \/ \E server \in Servers, rpc \in SubscriptionRpcs : ClientRequest(server, rpc)
  \/ \E src \in EventSources : HandleWotEvent(src)
  \/ \E t \in TaskIds : NotifySubscribed(t)
  \/ NotifyResourceListChanged
  \/ \E t \in TaskIds, ok \in BOOLEAN : NotificationSettled(t, ok)
SpecFanout == InitExplicit /\ [][FanoutNext]_vars

\* registrations, through the bridge or not, and the list-changed broadcast
BridgeNext ==
  \/ \E mode \in Modes : Start(mode)
  \/ NewSessionRequest(InitializeRequest)
  \/ \E sid \in SessionIds : ConnectResolved(sid)
  \/ \E sid \in SessionIds : SessionDelete(sid)
  \/ \E thing \in ThingCatalog : RegisterThing(thing)
  \/ \E t \in TaskIds, ok \in BOOLEAN : NotificationSettled(t, ok)
  \/ \E a \in AddIds, thing \in ThingCatalog : AddThing(a, thing)
  \/ \E a \in AddIds, ok \in BOOLEAN : ConsumeSettled(a, ok)
  \/ \E a \in AddIds, ok \in BOOLEAN : SubscribeAllSettled(a, ok)
  \/ \E a \in AddIds : AddThingReturn(a)
SpecBridge == InitExplicit /\ [][BridgeNext]_vars

\* things come through addThing only, as main.ts adds them, before and
\* after the server has started
AddThingNext ==
  \/ \E mode \in Modes : Start(mode)
  \/ NewSessionRequest(InitializeRequest)
  \/ \E sid \in SessionIds : ConnectResolved(sid)
  \/ \E t \in TaskIds, ok \in BOOLEAN : NotificationSettled(t, ok)
  \/ \E a \in AddIds, thing \in ThingCatalog : AddThing(a, thing)
  \/ \E a \in AddIds, ok \in BOOLEAN : ConsumeSettled(a, ok)
  \/ \E a \in AddIds, ok \in BOOLEAN : SubscribeAllSettled(a, ok)
  \/ \E a \in AddIds : AddThingReturn(a)
SpecAddThing == InitExplicit /\ [][AddThingNext]_vars

\* the event buffer: pushes by device events, the clock, the reads
BufferNext ==
  \/ \E src \in BufferSources : HandleWotEvent(src)
  \/ \E t \in TaskIds : NotifySubscribed(t)
  \/ Tick
  \/ \E uri \in Uris : Get(uri)
  \/ \E uri \in Uris, since \in Times : GetSince(uri, ToISOString(since))
  \/ \E uri \in Uris, count \in Counts : GetRecent(uri, count)
  \/ \E uri \in Uris : Count(uri)
  \/ \E uri \in Uris : Has(uri)
SpecBuffer == InitExplicit /\ [][BufferNext]_vars

\* the event resource of the lamp: registered, registered again, fed by
\* device events and read by the client of the stdio instance
EventsNext ==
  \/ Start("stdio")
  \/ \E thing \in {Lamp, Relamped} : RegisterThing(thing)
  \/ \E src \in EventSources : HandleWotEvent(src)
  \/ \E t \in TaskIds : NotifySubscribed(t)
  \/ Tick
  \/ \E uri \in Uris : ReadEventResource(StdioServer, uri)
SpecEvents == InitExplicit /\ [][EventsNext]_vars

\* the tools and resources of the instances and the calls of them
ToolsNext ==
  \/ \E mode \in Modes : Start(mode)
  \/ \E thing \in ToolCatalog : RegisterThing(thing)
  \/ \E c \in 1..MaxPending, server \in Servers, req \in Requests :
       CallTool(c, server, req)
  \/ \E c \in CallIds, ok \in BOOLEAN : ExternalSettled(c, ok)
  \/ \E server \in Servers, uri \in {EventUri(<<"f">>, <<"e">>), EventUri(<<"v">>, <<"c">>)} :
       ReadEventResource(server, uri)
SpecTools == Init /\ [][ToolsNext]_vars

\* translating the descriptions handed to addThing
TranslatorNext ==
  \/ Consumed
  \/ Translate
  \/ \E fn \in {"read", "write"} : InvokeTranslated(1, fn)
SpecTranslator == InitExplicit /\ [][TranslatorNext]_vars

\* main.ts adds the things before it starts the server: the state after
\* registerThing(Lamp) and registerThing(Meter) with no instance yet
InitRegistered ==
  /\ toolStrategy = "explicit"
  /\ stdioServer = <<>>
  /\ httpServer = FALSE
  /\ sessions = <<>>
  /\ serverSubscriptions = <<>>
  /\ instances = [s \in Servers |-> NoInstance]
  /\ connecting = <<>>
  /\ issued = 0
  /\ things = MapSet(MapSet(<<>>, Lamp.id, Lamp), Meter.id, Meter)
  /\ properties = PutByUri(PutByUri(<<>>, Lamp.properties), Meter.properties)
  /\ actions = PutByName(PutByName(<<>>, Lamp.actions), Meter.actions)
  /\ events = PutByUri(PutByUri(<<>>, Lamp.events), Meter.events)
  /\ buffers = BufferInitializeAll(BufferInitializeAll(<<>>, Lamp.events), Meter.events)
  /\ lastUpdated = <<>>
  /\ now = 0
  /\ nextData = 1
  /\ tasks = [t \in TaskIds |-> IdleTask]
  /\ running = 0
  /\ adds = [a \in AddIds |-> IdleAdd]
  /\ listChangedOwed = {}
  /\ response = NoResponse
  /\ caught = 0
  /\ calls = [c \in CallIds |-> NoCall]
  /\ external = NoExternal
  /\ result = NoResult
  /\ translated = NoTranslation
  /\ shutdown = NotStopping
  /\ wotClient = NoSubscriptions
\* calls of the getters of two devices
PendingRequests ==
  {[tool |-> GetterToolName(<<"l">>, <<"b">>), device_id |-> <<>>, member |-> <<>>,
    args |-> JObject(7, <<>>)],
   [tool |-> GetterToolName(<<"m">>, <<"v">>), device_id |-> <<>>, member |-> <<>>,
    args |-> JObject(7, <<>>)]}
SubscribeLamp == [method |-> "subscribe", uri |-> EventUri(<<"l">>, <<"o">>)]
\* device calls that may stay pending while everything else goes on
PendingNext ==
  \/ \E mode \in Modes : Start(mode)
  \/ NewSessionRequest(InitializeRequest)
  \/ \E sid \in SessionIds : ConnectResolved(sid)
  \/ \E sid \in SessionIds : SessionRequest(sid, SubscribeLamp)
  \/ \E src \in EventSources : HandleWotEvent(src)
  \/ \E t \in TaskIds : NotifySubscribed(t)
  \/ \E t \in TaskIds, ok \in BOOLEAN : NotificationSettled(t, ok)
  \/ \E c \in CallIds, server \in Servers, req \in PendingRequests :
       CallTool(c, server, req)
  \/ \E c \in CallIds, ok \in BOOLEAN : ExternalSettled(c, ok)
SpecPending == InitRegistered /\ [][PendingNext]_vars
\* the event loop runs every callback that is ready; the lamp is the device
\* that may never answer, the meter answers
MeterSettled(c) ==
  /\ calls[c].request.tool = GetterToolName(<<"m">>, <<"v">>)
  /\ \E ok \in BOOLEAN : ExternalSettled(c, ok)
PendingFairness ==
  /\ \A t \in TaskIds : WF_vars(NotifySubscribed(t))
  /\ \A t \in TaskIds : WF_vars(\E ok \in BOOLEAN : NotificationSettled(t, ok))
  /\ \A sid \in SessionIds : WF_vars(ConnectResolved(sid))
  /\ \A sid \in SessionIds : WF_vars(SessionRequest(sid, SubscribeLamp))
  /\ \A c \in CallIds : WF_vars(MeterSettled(c))
SpecPendingLive == SpecPending /\ PendingFairness

\* stopping the server, on its own or through the bridge
StopNext ==
  \/ \E mode \in Modes : StartEach(mode)
  \/ NewSessionRequest(InitializeRequest)
  \/ \E sid \in SessionIds : ConnectResolved(sid)
  \/ \E sid \in SessionIds : SessionDelete(sid)
  \/ \E ok \in BOOLEAN : McpStop(ok)
  \/ \E ok \in BOOLEAN : BridgeStop(ok)
  \/ \E ok \in BOOLEAN : StopResumed(ok)
  \/ \E ok \in BOOLEAN : ListenerClosed(ok)
  \/ \E ok \in BOOLEAN : StdioClosed(ok)
  \/ ClientStop
  \/ \E ok \in BOOLEAN : ClientStopSettled(ok)
SpecStop == InitExplicit /\ [][StopNext]_vars

\* subscribeEvent calls of the WoT client, one after another or interleaved
WotClientNext ==
  \/ \E c \in SubscribeIds, key \in EventKeys : SubscribeEvent(c, key)
  \/ \E c \in SubscribeIds, ok \in BOOLEAN : SubscriptionStopped(c, ok)
  \/ \E c \in SubscribeIds, ok \in BOOLEAN : EventSubscribed(c, ok)
  \/ \E key \in EventKeys : DeviceEvent(key)
SpecWotClient == InitExplicit /\ [][WotClientNext]_vars

\* stop of the server while sessions are created, subscribe and close and
\* device events arrive
StopEventsNext ==
  \/ \E mode \in Modes : StartEach(mode)
  \/ NewSessionRequest(InitializeRequest)
  \/ \E sid \in SessionIds : ConnectResolved(sid)
  \/ \E sid \in SessionIds : SessionRequest(sid, SubscribeLamp)
  \/ ClientRequest(StdioServer, SubscribeLamp)
  \/ \E sid \in SessionIds : SessionDelete(sid)
  \/ \E ok \in BOOLEAN : McpStop(ok)
  \/ \E ok \in BOOLEAN : StopResumed(ok)
  \/ \E ok \in BOOLEAN : ListenerClosed(ok)
  \/ \E ok \in BOOLEAN : StdioClosed(ok)
  \/ \E src \in EventSources : HandleWotEvent(src)
  \/ \E t \in TaskIds : NotifySubscribed(t)
  \/ \E t \in TaskIds, ok \in BOOLEAN : NotificationSettled(t, ok)
SpecStopEvents == InitExplicit /\ [][StopEventsNext]_vars
\* the event loop runs the continuation of every promise that has settled,
\* and the closes and the client's stop do settle
StopFairness ==
  /\ WF_vars(\E ok \in BOOLEAN : StopResumed(ok))
  /\ WF_vars(\E ok \in BOOLEAN : ListenerClosed(ok))
  /\ WF_vars(\E ok \in BOOLEAN : StdioClosed(ok))
  /\ WF_vars(ClientStop)
SpecStopLive == SpecStop /\ StopFairness

\* subscriptions of sessions next to everything else that happens
SubscriptionNext ==
  \/ \E mode \in Modes : Start(mode)
  \/ NewSessionRequest(InitializeRequest)
  \/ \E sid \in SessionIds : ConnectResolved(sid)
  \/ \E sid \in SessionIds, rpc \in SubscriptionRpcs : SessionRequest(sid, rpc)
  \/ \E sid \in SessionIds : SessionDelete(sid)
  \/ \E rpc \in SubscriptionRpcs : ClientRequest(StdioServer, rpc)
  \/ RegisterThing(Lamp)
  \/ \E src \in EventSources : HandleWotEvent(src)
  \/ \E t \in TaskIds : NotifySubscribed(t)
  \/ \E t \in TaskIds, ok \in BOOLEAN : NotificationSettled(t, ok)
SpecSubscriptions == InitExplicit /\ [][SubscriptionNext]_vars

Next ==
  SessionNext \/ RegistryNext \/ FanoutNext \/ BridgeNext \/ BufferNext \/ ToolsNext
    \/ TranslatorNext \/ SubscriptionNext \/ PendingNext \/ StopNext
    \/ ReregisterNext \/ EventsNext \/ AddThingNext \/ StopEventsNext
    \/ WotClientNext
Spec == Init /\ [][Next]_vars

\* ------------------------------------------------------------- helpers
Updated == "notifications/resources/updated"
ListChanged == "notifications/resources/list_changed"
Live == Range(LiveServers(stdioServer, sessions))
SubscribedTo(server, uri) ==
  MapHas(serverSubscriptions, server) /\ uri \in MapGet(serverSubscriptions, server)
SubscriptionsOf(subs, server) ==
  IF MapHas(subs, server) THEN <<MapGet(subs, server)>> ELSE <<>>
Created(insts) == {s \in Servers : insts[s].created}
\* the identifier was issued and its transport is closed or was never connected
Closed(sid) == sid <= issued /\ ~instances[sid].transport

\* ================================================================ claims

\* C1: a resource-updated notification for R goes to an instance only if R is
\* in that instance's own subscription set when it is sent; when exactly one
\* live instance has subscribed to R, an event on R is sent to it and to no
\* other instance.
C1_SubscriptionIsolation ==
  [][\A t \in TaskIds :
       tasks'[t].method = Updated =>
         /\ \A s \in tasks'[t].told \ tasks[t].told : SubscribedTo(s, tasks'[t].uri)
         /\ (tasks[t].pc = "notify" /\ tasks'[t].pc # "notify") =>
              LET subscribed == {s \in Live : instances[s].transport
                                              /\ SubscribedTo(s, tasks[t].uri)}
              IN Cardinality(subscribed) = 1 => tasks'[t].told = subscribed
    ]_vars
\* two live sessions, the first subscribed to R and told, the second subscribed
\* to another resource only and not told
C1_Witness ==
  \E t \in TaskIds :
    /\ tasks[t].method = Updated
    /\ Len(sessions) = 2
    /\ tasks[t].told = {sessions[1][1]}
    /\ SubscribedTo(sessions[2][1], EventUri(<<"m">>, <<"a">>))
    /\ ~SubscribedTo(sessions[2][1], tasks[t].uri)
    /\ tasks[t].pc = "done"

\* C2: handleWotEvent appends the event to the buffer of its URI in the step
\* that starts it, whoever is subscribed, and sends notifications for it only
\* in later steps.
C2_BufferedBeforeNotified ==
  [][\A t \in TaskIds :
       tasks'[t].method = Updated =>
         /\ (tasks'[t].pc = "notify" /\ tasks[t].pc # "notify") =>
              /\ MapHas(buffers', tasks'[t].uri)
              /\ LET buffer == MapGet(buffers', tasks'[t].uri) IN
                   /\ buffer # <<>>
                   /\ buffer[Len(buffer)].data = tasks'[t].data
              /\ tasks'[t].told = {}
         /\ tasks'[t].told \ tasks[t].told # {} =>
              /\ tasks[t].pc \in {"notify", "await"}
              /\ tasks[t].method = Updated
              /\ tasks[t].data = tasks'[t].data
    ]_vars
\* an event is buffered although no instance exists at all
C2_Witness ==
  \E t \in TaskIds :
    /\ tasks[t].method = Updated /\ tasks[t].pc = "done" /\ tasks[t].told = {}
    /\ Live = {} /\ Created(instances) = {}
    /\ MapHas(buffers, tasks[t].uri)
    /\ Len(MapGet(buffers, tasks[t].uri)) = 1

\* C3: a request whose session identifier is no key of the session map is
\* answered 'Session not found' and changes neither the session map nor the
\* subscription map nor the set of instances.
C3_UnknownSession ==
  [][(response'.sid # 0 /\ ~MapHas(sessions, response'.sid)) =>
       /\ response'.status = "Session not found"
       /\ sessions' = sessions
       /\ serverSubscriptions' = serverSubscriptions
       /\ instances' = instances
    ]_vars
\* an identifier that was issued and closed is refused while a session is live
C3_Witness ==
  /\ response.status = "Session not found"
  /\ response.sid <= issued
  /\ sessions # <<>>

\* C4 (as claimed): every identifier generated for a request without session
\* identifier is a key of the session map once the request has been handled,
\* as long as its transport has not closed.
C4_EveryRequestCreatesSession ==
  \A sid \in SessionIds :
    (sid <= issued /\ ~MapHas(connecting, sid) /\ instances[sid].transport)
      => MapHas(sessions, sid)

\* C5 (as claimed): a request with a known session identifier is routed,
\* creates no instance and changes neither the session map nor another
\* session's subscription set.
C5_KnownSessionFrame ==
  [][(response'.sid # 0 /\ MapHas(sessions, response'.sid)) =>
       /\ response'.status = "routed"
       /\ Created(instances') = Created(instances)
       /\ sessions' = sessions
       /\ \A s \in Servers \ {MapGet(sessions, response'.sid).server} :
            SubscriptionsOf(serverSubscriptions', s) = SubscriptionsOf(serverSubscriptions, s)
    ]_vars
\* C5 (amended): ... changes the session map only by removing its own entry,
\* when the request is the DELETE that closes the session's transport.
C5_KnownSessionFrameAmended ==
  [][(response'.sid # 0 /\ MapHas(sessions, response'.sid)) =>
       /\ response'.status = "routed"
       /\ Created(instances') = Created(instances)
       /\ sessions' \in {sessions, MapDelete(sessions, response'.sid)}
       /\ \A s \in Servers \ {MapGet(sessions, response'.sid).server} :
            SubscriptionsOf(serverSubscriptions', s) = SubscriptionsOf(serverSubscriptions, s)
    ]_vars
\* a routed request of one session while the other session holds a subscription
C5_Witness ==
  /\ response.status = "routed"
  /\ Len(sessions) = 2
  /\ \E i \in 1..2 :
       /\ sessions[i][1] = response.sid
       /\ SubscriptionsOf(serverSubscriptions, sessions[3 - i][1]) = <<Uris>>
       /\ SubscriptionsOf(serverSubscriptions, sessions[i][1]) # <<{}>>

\* C6: when a session leaves the session map its subscription set leaves the
\* subscription map, every other entry of both maps stays, and the identifier
\* is never a key again: a later request with it gets 'Session not found'.
C6_Teardown ==
  [][/\ \A sid \in SessionIds :
          (MapHas(sessions, sid) /\ ~MapHas(sessions', sid)) =>
            /\ sessions' = MapDelete(sessions, sid)
            /\ serverSubscriptions' =
                 MapDelete(serverSubscriptions, MapGet(sessions, sid).server)
            /\ ~instances'[MapGet(sessions, sid).server].transport
     /\ \A sid \in SessionIds :
          Closed(sid) =>
            /\ ~MapHas(sessions', sid)
            /\ ~MapHas(serverSubscriptions', sid)
            /\ response'.sid = sid => response'.status = "Session not found"
    ]_vars
\* a closed session is refused while another session keeps its subscriptions
C6_Witness ==
  /\ response.status = "Session not found"
  /\ Closed(response.sid)
  /\ instances[response.sid].created
  /\ \E s \in Live : SubscriptionsOf(serverSubscriptions, s) = <<Uris>>

\* C7 (as claimed): every live instance exposes the tools and the event
\* resources of every thing in the registry.
ToolsOf(ops) == {ops[i].name : i \in {j \in 1..Len(ops) : ops[j].kind = "tool"}}
ResourcesOf(ops) == {ops[i].name : i \in {j \in 1..Len(ops) : ops[j].kind = "resource"}}
C7_EveryInstanceHasEveryThing ==
  \A s \in Live :
    \A i \in 1..Len(things) :
      LET ops == ThingOps(toolStrategy, things[i][2]) IN
      /\ ToolsOf(ops) \subseteq instances[s].tools
      /\ ResourcesOf(ops) \subseteq instances[s].resources

\* C8 (as claimed): once no addThing is between its registerThing and its
\* return, every connected instance that was live at a registration has been
\* sent a list-changed notification since.
C8_RegistrationIsBroadcast ==
  (\A a \in AddIds : adds[a].pc \notin {"subscribe", "notify"}) => listChangedOwed = {}

\* C9: when an awaited send rejects, the fan-out does not reject, changes
\* neither the buffer nor the subscription sets nor the sessions, and goes on
\* in the same step to the next instance that is due (or ends if none is).
C9_SendFailureSwallowed ==
  [][\A t \in TaskIds :
       /\ tasks'[t].pc # "rejected"
       /\ caught' = t =>
            /\ buffers' = buffers /\ lastUpdated' = lastUpdated
            /\ serverSubscriptions' = serverSubscriptions
            /\ sessions' = sessions /\ instances' = instances
            /\ LET due == {j \in (tasks[t].idx + 1)..Len(tasks[t].servers) :
                             ShouldNotify(tasks[t].method, tasks[t].servers[j], tasks[t].uri)}
               IN IF due = {}
                    THEN tasks'[t].pc = "done" /\ tasks'[t].told = tasks[t].told
                    ELSE /\ tasks'[t].pc = "await"
                         /\ tasks'[t].idx \in due
                         /\ \A j \in due : tasks'[t].idx <= j
                         /\ tasks'[t].told =
                              tasks[t].told \cup {tasks[t].servers[tasks'[t].idx]}
    ]_vars
\* the send to the first session failed and the second was sent to all the same
C9_Witness ==
  /\ caught # 0
  /\ tasks[caught].pc = "await"
  /\ Cardinality(tasks[caught].told) = 2

\* C10 (as claimed): the handler sends to every instance that is due in the
\* block that lists the instances, without waiting for any send to settle.
C10_FireAndForget ==
  [][\A t \in TaskIds :
       (tasks[t].pc = "notify" /\ tasks'[t].pc # "notify") =>
         tasks'[t].told =
           {s \in Live : ShouldNotify(tasks'[t].method, s, tasks'[t].uri)}
    ]_vars

\* C11: a buffer never holds more than MaxEventsPerUri events; while nothing
\* can have expired, a resource that got all n events pushed so far holds the
\* newest min(n, MaxEventsPerUri) of them in arrival order.
BufferOf(uri) == IF MapHas(buffers, uri) THEN MapGet(buffers, uri) ELSE <<>>
C11_BufferBound ==
  \A uri \in Uris :
    LET buffer == BufferOf(uri)
        n == nextData - 1
        kept == IF n > MaxEventsPerUri THEN MaxEventsPerUri ELSE n
    IN /\ Len(buffer) <= MaxEventsPerUri
       /\ (now < EventTtlMs /\ \A other \in Uris \ {uri} : BufferOf(other) = <<>>
           /\ buffer # <<>>) =>
            /\ Len(buffer) = kept
            /\ \A i \in 1..kept : buffer[i].data = n - kept + i
\* one more event than the bound was pushed to a resource and read back
C11_Witness ==
  /\ result.kind = "events" /\ result.op = "get"
  /\ nextData - 1 > MaxEventsPerUri
  /\ now < EventTtlMs
  /\ Len(result.events) = MaxEventsPerUri
  /\ result.events = BufferOf(result.uri)
  /\ result.events[1].data = nextData - MaxEventsPerUri

\* C12: get, getSince and getRecent return no event as old as the TTL at the
\* read; get returns every younger event of the buffer, getSince those of them
\* after `since`, getRecent the last `count` of them (all of them when count
\* is 0 or more than there are).
Age(event, at) == at - DateParse(event.timestamp)
IsSuffix(s, t) == Len(s) <= Len(t) /\ s = SubSeq(t, Len(t) - Len(s) + 1, Len(t))
C12_TtlPruning ==
  [][result'.kind = "events" =>
       LET young == SelectSeq(BufferOf(result'.uri),
                              LAMBDA e : Age(e, now) < EventTtlMs)
           got == result'.events
       IN /\ \A i \in 1..Len(got) : Age(got[i], now') < EventTtlMs
          /\ result'.op = "get" => got = young
          /\ result'.op = "getSince" =>
               got = SelectSeq(young, LAMBDA e : DateParse(e.timestamp) >
                                                  DateParse(result'.arg[1]))
          /\ result'.op = "getRecent" =>
               /\ IsSuffix(got, young)
               /\ Len(got) = IF result'.arg[1] \in 1..Len(young)
                                THEN result'.arg[1] ELSE Len(young)
    ]_vars
\* of two events of a resource the one as old as the TTL is gone from get
C12_Witness ==
  /\ result.kind = "events" /\ result.op = "get"
  /\ nextData = 3
  /\ \A other \in Uris \ {result.uri} : BufferOf(other) = <<>>
  /\ Len(result.events) = 1
  /\ result.events[1].data = 2
  /\ Age(result.events[1], now) = EventTtlMs - 1
\* C13 (as claimed): under the explicit strategy a registered thing with P
\* properties, W of them writable, and A actions has P + W + A distinct tool
\* names, all of them tools of every live instance.
Writables(thing) == {i \in 1..Len(thing.properties) : thing.properties[i].writable}
C13_ExplicitCompleteness ==
  toolStrategy = "explicit" =>
    \A i \in 1..Len(things) :
      LET thing == things[i][2]
          names == ToolsOf(ThingOps("explicit", thing))
      IN /\ Cardinality(names) =
              Len(thing.properties) + Cardinality(Writables(thing)) + Len(thing.actions)
         /\ \A s \in Live : instances[s].transport => names \subseteq instances[s].tools

\* C14: under the generic strategy every instance that was created has
\* exactly the four generic tools, whatever was registered before or after.
C14_GenericArity ==
  toolStrategy = "generic" =>
    \A s \in Servers :
      instances[s].created =>
        /\ instances[s].tools = GenericTools
        /\ Cardinality(instances[s].tools) = 4
\* two things are registered, two sessions were created at different points
C14_Witness ==
  /\ toolStrategy = "generic"
  /\ Len(things) = 2
  /\ Len(sessions) = 2
  /\ instances[1].tools = GenericTools
  /\ instances[1].resources = Uris
  /\ instances[2].resources # Uris

\* C15 (as claimed): every live instance has a resource at the URI of every
\* registered event, and every tool of an instance is a generic tool or the
\* tool of a property or an action.
RegistryToolNames ==
  ToolsOf(PropertyOps(MapValues(properties)) \o ActionOps(MapValues(actions)))
C15_EventsAreResources ==
  \A s \in Live :
    /\ MapKeySet(events) \subseteq instances[s].resources
    /\ instances[s].tools \subseteq GenericTools \cup RegistryToolNames

\* C16: a write_property call or a setter call for a property that is not
\* writable gets an error result, is never suspended at a device call, and
\* writeProperty is called for writable properties only.
RegisteredProperty(thingId, name) ==
  IF MapHas(things, thingId)
    THEN Find(MapGet(things, thingId).properties, LAMBDA p : p.wotName = name)
    ELSE <<>>
ReadOnlyWrite(req) ==
  \/ /\ toolStrategy = "generic"
     /\ req.tool = WritePropertyTool
     /\ RegisteredProperty(req.device_id, req.member) # <<>>
     /\ ~RegisteredProperty(req.device_id, req.member)[1].writable
  \/ /\ toolStrategy = "explicit"
     /\ \E i \in 1..Len(properties) :
          LET prop == properties[i][2]
              parts == MatchPropertyUri(prop.uri)
          IN ~prop.writable /\ req.tool = SetterToolName(parts[1], parts[2])
C16_ReadOnlyWriteFails ==
  /\ (result.kind = "tool" /\ ReadOnlyWrite(result.request)) => result.isError
  /\ \A c \in CallIds : calls[c].pc = "await" => ~ReadOnlyWrite(calls[c].request)
  /\ external.fn = "write" =>
       /\ RegisteredProperty(external.thingId, external.name) # <<>>
       /\ RegisteredProperty(external.thingId, external.name)[1].writable
\* write_property on a read-only property returned its error result
C16_Witness ==
  /\ toolStrategy = "generic"
  /\ result.kind = "tool"
  /\ result.request.tool = WritePropertyTool
  /\ ReadOnlyWrite(result.request)
  /\ result.handler = "returned" /\ result.isError
  /\ external = NoExternal

\* C18: invokeAction gets the action's thing and name and, for an action with
\* a wrapped input called with {value: x}, the bare x; for an action without,
\* the arguments as they came.
ActionOfRequest(req) ==
  IF req.tool = InvokeActionTool /\ toolStrategy = "generic"
    THEN IF MapHas(things, req.device_id)
           THEN Find(MapGet(things, req.device_id).actions,
                     LAMBDA a : a.wotName = req.member)
           ELSE <<>>
    ELSE Find(MapValues(actions),
              LAMBDA a : ActionToolName(a.thingId, a.wotName) = req.tool)
C18_ActionUnwrapping ==
  external.fn = "invoke" =>
    LET req == calls[external.call].request
        action == ActionOfRequest(req)
    IN /\ calls[external.call].pc = "await"
       /\ action # <<>>
       /\ external.thingId = action[1].thingId
       /\ external.name = action[1].wotName
       /\ (action[1].inputWrapped /\ req.args.t = "object" /\ req.args.value # <<>>)
            => external.value = req.args.value[1]
       /\ ~action[1].inputWrapped => external.value = req.args
\* the explicit tool of a wrapped action called with {value: 0}
C18_Witness ==
  /\ toolStrategy = "explicit"
  /\ external.fn = "invoke"
  /\ ActionOfRequest(calls[external.call].request)[1].inputWrapped
  /\ calls[external.call].request.args = JObject(0, <<JNumber(0)>>)
  /\ external.value = JNumber(0)

\* C20 (as claimed): a tool handler that ran returned its result, error
\* results included; none rejected.
C20_HandlersNeverReject ==
  (result.kind = "tool" /\ result.handler # "none") => result.handler = "returned"

\* ------------------------------------------------------------- C17, C19
\* a translation has been made
Translation == translated.pc = "translated"
DeclaredActions == IF translated.td.actions = <<>> THEN <<>> ELSE translated.td.actions[1]
\* the declared input is an object schema with a properties member
ObjectWithProperties(input) ==
  input # <<>> /\ input[1].type = "object" /\ input[1].properties # <<>>
WrappedSchema(original) ==
  [type |-> "object",
   properties |-> <<<<<<ValueName, original>>>>>>,
   required |-> <<<<ValueName>>>>]

\* C17: for every translated action, inputWrapped is true if and only if the
\* declared input is not an object schema with a properties member, an action
\* that declares no input at all included; a wrapped action's inputSchema is
\* {type: object, properties: {value: <original>}, required: [value]}, and
\* otherwise the declared properties and required are passed through.
C17_ActionWrapping ==
  Translation =>
    /\ Len(translated.thing.actions) = Len(DeclaredActions)
    /\ \A i \in 1..Len(DeclaredActions) :
         LET input == DeclaredActions[i][2].input
             action == translated.thing.actions[i]
         IN /\ action.inputWrapped <=> ~ObjectWithProperties(input)
            /\ action.inputWrapped /\ input # <<>> =>
                 action.inputSchema = WrappedSchema(input[1])
            /\ ~action.inputWrapped /\ input # <<>> =>
                 /\ action.inputSchema.type = "object"
                 /\ action.inputSchema.properties = input[1].properties
                 /\ action.inputSchema.required = input[1].required

\* C17, amended: for every translated action, inputWrapped is true if and
\* only if the action declares an input and that input is not an object schema
\* with a properties member; a wrapped action's inputSchema is {type: object,
\* properties: {value: <original>}, required: [value]}; an object schema with
\* properties has its properties and required passed through; an action that
\* declares no input is not wrapped and gets {type: object, properties: {}}.
C17_ActionWrappingAmended ==
  Translation =>
    /\ Len(translated.thing.actions) = Len(DeclaredActions)
    /\ \A i \in 1..Len(DeclaredActions) :
         LET input == DeclaredActions[i][2].input
             action == translated.thing.actions[i]
         IN /\ action.inputWrapped <=> (input # <<>> /\ ~ObjectWithProperties(input))
            /\ action.inputWrapped => action.inputSchema = WrappedSchema(input[1])
            /\ ObjectWithProperties(input) =>
                 /\ action.inputSchema.type = "object"
                 /\ action.inputSchema.properties = input[1].properties
                 /\ action.inputSchema.required = input[1].required
            /\ input = <<>> =>
                 /\ action.inputSchema.type = "object"
                 /\ action.inputSchema.properties = <<<<>>>>
                 /\ action.inputSchema.required = <<>>
\* an action whose declared input has properties but not the type object
\* has been translated, and came out wrapped
C17_Witness ==
  /\ Translation
  /\ Len(DeclaredActions) = 1
  /\ DeclaredActions[1][2].input # <<>>
  /\ DeclaredActions[1][2].input[1].type = ""
  /\ DeclaredActions[1][2].input[1].properties # <<>>
  /\ translated.thing.actions[1].inputWrapped

\* the identifier is present
HasIdentifier(td) == td.id # <<>> /\ td.id[1] # <<>>
\* what follows the last ':' or '/' of the identifier, all of it if it has none
LastSegment(id) ==
  LET k == CHOOSE k \in 0..Len(id) :
             /\ k = 0 \/ id[k] \in {":", "/"}
             /\ \A j \in (k + 1)..Len(id) : id[j] \notin {":", "/"}
  IN SubSeq(id, k + 1, Len(id))
IdSource(td) == IF HasIdentifier(td) THEN LastSegment(td.id[1]) ELSE td.title
\* a letter or a digit
IdChar(c) == c \in AlnumChars \cup Range(UpperCase)
\* the positions of str that show in the id: a letter or digit, or the first
\* character of a run of others that has a letter or digit on both sides
Shows(str, i) ==
  \/ IdChar(str[i])
  \/ /\ i > 1 /\ IdChar(str[i - 1])
     /\ \E j \in (i + 1)..Len(str) : IdChar(str[j])
RECURSIVE Hyphenated(_, _)
Hyphenated(str, i) ==
  IF i > Len(str) THEN <<>>
  ELSE (IF ~Shows(str, i) THEN <<>>
        ELSE IF IdChar(str[i]) THEN toLowerCase(<<str[i]>>) ELSE <<"-">>)
       \o Hyphenated(str, i + 1)

\* C19: the thing id is derived from the last ':' or '/' delimited segment of
\* the identifier when there is one and from the title otherwise; it has only
\* characters of [a-z0-9-], every run of other characters of the source has
\* become one hyphen, and it neither starts nor ends with a hyphen;
\* 'urn:dev:ops:My Light_01' gives 'my-light-01'.
C19_IdSanitation ==
  Translation =>
    LET id == translated.thing.id
    IN /\ id = Hyphenated(IdSource(translated.td), 1)
       /\ \A i \in 1..Len(id) : id[i] \in AlnumChars \cup {"-"}
       /\ \A i \in 1..(Len(id) - 1) : ~(id[i] = "-" /\ id[i + 1] = "-")
       /\ id # <<>> => id[1] # "-" /\ id[Len(id)] # "-"
       /\ translated.td.id = <<LightId>> =>
            id = <<"m", "y", "-", "l", "i", "g", "h", "t", "-", "0", "1">>
\* an identifier whose last segment starts with a run of two other
\* characters has been translated
C19_Witness ==
  /\ Translation
  /\ translated.td.id = <<<<"/", "_", "-", "B">>>> \/ translated.td.id = <<<<"_", "-", "B">>>>
  /\ translated.thing.id = <<"b">>
\* the identifier of the example has been translated
C19_WitnessLight ==
  /\ Translation
  /\ translated.td.id = <<LightId>>
  /\ translated.thing.id # <<>>

\* ------------------------------------------------------------------ C21
\* the request of the tools/call this step is, if it is one: the call is
\* answered at once, or its handler is suspended at a device function
CalledNow ==
  {result'.request : x \in IF result'.kind = "tool" /\ calls' = calls THEN {1} ELSE {}}
  \cup {calls'[c].request :
          c \in {d \in CallIds : calls[d].pc = "idle" /\ calls'[d].pc = "await"}}
\* device_id is no key of the things map, or the name is not the wotName of
\* a property (read_property, write_property) or action (invoke_action) of it
NotFound(req) ==
  \/ ~MapHas(things, req.device_id)
  \/ LET thing == MapGet(things, req.device_id)
         names == IF req.tool = InvokeActionTool
                    THEN {thing.actions[i].wotName : i \in 1..Len(thing.actions)}
                    ELSE {thing.properties[i].wotName : i \in 1..Len(thing.properties)}
     IN req.member \notin names
LookupTools == {ReadPropertyTool, WritePropertyTool, InvokeActionTool}

\* C21: under the generic strategy a call of read_property, write_property or
\* invoke_action whose device_id is not in the registry, or whose property or
\* action name is not exactly that of a capability of the device, is answered
\* by the handler with an error result (isError = true); no device function
\* is called and the registry is unchanged.
C21_NotFound ==
  [][\A req \in CalledNow :
       (toolStrategy = "generic" /\ req.tool \in LookupTools /\ NotFound(req)) =>
         /\ result' = ToolResult(req, "returned", TRUE)
         /\ external' = NoExternal
         /\ calls' = calls
         /\ UNCHANGED registryVars]_vars
\* invoke_action has been called with the name of a property of a registered
\* device and got the error result
C21_Witness ==
  /\ toolStrategy = "generic"
  /\ result.kind = "tool"
  /\ result.request.tool = InvokeActionTool
  /\ result.request.device_id = <<"f">>
  /\ result.request.member = <<"r">>
  /\ MapHas(things, <<"f">>)
  /\ result.isError

\* ------------------------------------------------------------------ C22
\* the subscription set of an instance, <<>> if it has none
SetOf(subs, server) == IF MapHas(subs, server) THEN <<MapGet(subs, server)>> ELSE <<>>

\* C22: the subscription set of a session changes only in a step that is a
\* request of that session, and then by the one URI subscribed or
\* unsubscribed; no step changes the sets of two instances; requests of other
\* sessions, events, registerThing and the creation or teardown of other
\* sessions leave it as it is; subscribing twice is subscribing once and
\* unsubscribing a URI that is not in the set changes nothing.
C22_SubscriptionFrame ==
  [][/\ \A b \in SessionIds :
          LET old == SetOf(serverSubscriptions, b)
              new == SetOf(serverSubscriptions', b)
          IN (old # <<>> /\ new # <<>> /\ old # new) =>
               /\ response'.sid = b /\ response'.status = "routed"
               /\ \E uri \in Uris : new[1] = old[1] \cup {uri} \/ new[1] = old[1] \ {uri}
               /\ \A c \in Servers \ {b} :
                    SetOf(serverSubscriptions', c) = SetOf(serverSubscriptions, c)
               /\ UNCHANGED <<sessions, instances, registryVars, buffers>>
     /\ \A b \in Servers, uri \in Uris :
          LET once == Subscribe(serverSubscriptions, b, uri)
              without == Unsubscribe(serverSubscriptions, b, uri)
          IN /\ Subscribe(once, b, uri) = once
             /\ MapHas(serverSubscriptions, b) =>
                  /\ MapGet(once, b) = MapGet(serverSubscriptions, b) \cup {uri}
                  /\ MapGet(without, b) = MapGet(serverSubscriptions, b) \ {uri}
             /\ ~SubscribedTo(b, uri) => without = serverSubscriptions
    ]_vars
\* two live sessions; the second has just subscribed to a resource, the
\* first holds another subscription, a thing is registered and an event of
\* it is buffered
C22_Witness ==
  /\ Len(sessions) = 2
  /\ response.sid = sessions[2][1] /\ response.status = "routed"
  /\ SetOf(serverSubscriptions, sessions[1][1]) = <<{EventUri(<<"l">>, <<"o">>)}>>
  /\ SetOf(serverSubscriptions, sessions[2][1]) = <<{EventUri(<<"m">>, <<"a">>)}>>
  /\ MapHas(things, <<"l">>)
  /\ MapHas(buffers, EventUri(<<"l">>, <<"o">>))
  /\ MapGet(buffers, EventUri(<<"l">>, <<"o">>)) # <<>>

\* ------------------------------------------------------------------ C23
\* every thing of the things map has its properties, actions and events in
\* the derived maps and a buffer for each of its events
RegistryComplete(thingMap, propertyMap, actionMap, eventMap, bufs) ==
  \A i \in 1..Len(thingMap) :
    LET thing == thingMap[i][2] IN
    /\ thingMap[i][1] = thing.id
    /\ \A j \in 1..Len(thing.properties) :
         /\ MapHas(propertyMap, thing.properties[j].uri)
         /\ MapGet(propertyMap, thing.properties[j].uri) = thing.properties[j]
    /\ \A j \in 1..Len(thing.actions) :
         /\ MapHas(actionMap, thing.actions[j].name)
         /\ MapGet(actionMap, thing.actions[j].name) = thing.actions[j]
    /\ \A j \in 1..Len(thing.events) :
         /\ MapHas(eventMap, thing.events[j].uri)
         /\ MapGet(eventMap, thing.events[j].uri) = thing.events[j]
         /\ MapHas(bufs, thing.events[j].uri)
\* the URIs that are in one of two sets only
Difference(S, T) == (S \ T) \cup (T \ S)

\* C23: whatever step comes next (a session being created, an event handler,
\* a request), the state it starts from and the state it leaves have every
\* thing of the things map complete in the properties, actions and events
\* maps, with a buffer initialized for each of its events; and a step that
\* changes a subscription set changes it by one whole URI, in the step that
\* answers the request, and changes nothing else.
C23_RegistryAtomic ==
  [][/\ RegistryComplete(things, properties, actions, events, buffers)
     /\ RegistryComplete(things', properties', actions', events', buffers')
     /\ \A b \in Servers :
          LET old == SetOf(serverSubscriptions, b)
              new == SetOf(serverSubscriptions', b)
          IN (old # <<>> /\ new # <<>> /\ old # new) =>
               /\ Cardinality(Difference(old[1], new[1])) = 1
               /\ UNCHANGED <<configVars, sessions, connecting, issued, instances,
                              registryVars, bufferVars, taskVars>>
    ]_vars
\* a thing is registered while a session is being created and the fan-out of
\* an event is under way
C23_Witness ==
  /\ MapHas(things, <<"l">>)
  /\ connecting # <<>>
  /\ \E t \in TaskIds : tasks[t].pc = "notify"
  /\ MapHas(buffers, EventUri(<<"l">>, <<"o">>))

\* ------------------------------------------------------------------ C24
\* a read of the lamp is suspended at the device function
LampPending ==
  \E c \in CallIds :
    calls[c].pc = "await" /\ calls[c].request.tool = GetterToolName(<<"l">>, <<"b">>)

\* C24: while a device call is pending, and also if it stays pending for
\* ever, everything else that has been started completes: the fan-out of an
\* event, the creation of a session, a session's subscribe request, and a tool
\* call to another device whose device function answers.
C24_PendingBlocksOnlyItself ==
  /\ \A t \in TaskIds :
       (LampPending /\ tasks[t].pc \in {"notify", "await"}) ~> (tasks[t].pc = "done")
  /\ \A sid \in SessionIds :
       (LampPending /\ MapHas(connecting, sid)) ~> MapHas(sessions, sid)
  /\ \A sid \in SessionIds :
       (LampPending /\ MapHas(sessions, sid)) ~>
          SubscribedTo(sid, EventUri(<<"l">>, <<"o">>))
  /\ \A c \in CallIds :
       (LampPending /\ calls[c].pc = "await"
          /\ calls[c].request.tool = GetterToolName(<<"m">>, <<"v">>)) ~>
         (calls[c].pc = "idle")
\* the first session's read of the lamp is still pending; since its call the
\* second session was created, subscribed, was sent an event, and its read of
\* the meter has returned
C24_Witness ==
  /\ Len(sessions) = 2
  /\ calls[1].pc = "await"
  /\ calls[1].request.tool = GetterToolName(<<"l">>, <<"b">>)
  /\ result.kind = "tool"
  /\ result.request.tool = GetterToolName(<<"m">>, <<"v">>)
  /\ ~result.isError
  /\ SubscribedTo(sessions[2][1], EventUri(<<"l">>, <<"o">>))
  /\ \E t \in TaskIds : tasks[t].pc = "done" /\ tasks[t].told = {sessions[2][1]}

\* ------------------------------------------------------------- C25, C26
\* the loop of stop is over
LoopOver == shutdown.pc \in {"listener", "stdio", "done", "rejected"}
Entries(what) == {k \in 1..Len(shutdown.log) : shutdown.log[k].what = what}

\* C25: once the loop of stop is over, transport.close() has been called for
\* every session that was in the session map when stop was called and had not
\* closed by itself in the meantime, whether or not an earlier close failed;
\* a close that ran through has closed the transport; and the stdio
\* instance is closed after every close of a session transport.
C25_OrderedShutdown ==
  /\ LoopOver =>
       \A id \in shutdown.atCall : id \in shutdown.visited \/ ~instances[id].transport
  /\ \A k \in Entries("session") :
       /\ shutdown.log[k].id \in shutdown.visited
       /\ shutdown.log[k].ok => ~instances[shutdown.log[k].id].transport
  /\ \A k \in Entries("stdio") :
       /\ LoopOver
       /\ \A j \in Entries("session") : j < k
\* both modes were started and two sessions stored; the first close failed,
\* the second ran through, and the stdio instance was closed last
C25_Witness ==
  /\ Cardinality(shutdown.atCall) = 2
  /\ Len(shutdown.log) = 4
  /\ shutdown.log[1].what = "session" /\ ~shutdown.log[1].ok
  /\ shutdown.log[2].what = "session" /\ shutdown.log[2].ok
  /\ shutdown.log[4].what = "stdio"
  /\ shutdown.pc = "done"

\* C26: WotMcpBridge.stop calls client.stop only when mcpServer.stop has
\* settled, and it does call it, also when mcpServer.stop has rejected.
C26_ClientStoppedAfterServer ==
  /\ [](shutdown.bridge \in {"client", "done", "rejected"} =>
          /\ shutdown.pc \in {"done", "rejected"}
          /\ Entries("client") = {Len(shutdown.log)})
  /\ (shutdown.bridge = "server") ~> (shutdown.bridge = "client")
  /\ (shutdown.bridge = "server" /\ shutdown.pc = "rejected") ~>
       (Entries("client") # {})
\* the stop of the server has rejected and the client's stop was called
C26_Witness ==
  /\ shutdown.pc = "rejected"
  /\ shutdown.bridge = "client"
  /\ Entries("client") # {}

\* ------------------------------------------------------------------ C27
\* the entries of the things Map under one id
ThingsWithId(thingMap, id) == {i \in 1..Len(thingMap) : thingMap[i][1] = id}
\* registerThing has just been called for an id the registry already held
Reregistered ==
  /\ result'.kind = "registerThing"
  /\ MapHas(things, result'.thing.id)
\* afterwards the things Map holds one entry for the id, the thing just passed
Overwritten ==
  /\ Cardinality(ThingsWithId(things', result'.thing.id)) = 1
  /\ MapGet(things', result'.thing.id) = result'.thing
\* C27 (as claimed): registerThing for an id that is already registered
\* returns without an exception, whether or not instances are live, and
\* leaves exactly one thing under the id, the one just registered.
C27_ReregisterOverwrites ==
  [][Reregistered => (~result'.threw /\ Overwritten)]_vars

\* ------------------------------------------------------------------ C28
\* the tool registrations of a thing under the explicit strategy, in order
ToolOps(thing) == SelectSeq(ThingOps("explicit", thing), LAMBDA op : op.kind = "tool")
\* two capabilities of the thing get one tool name
Collide(thing) == Cardinality(ToolsOf(ThingOps("explicit", thing))) < Len(ToolOps(thing))
\* the name is the getter's of a registered property and the tool name of a
\* registered action; the thing's actions are registered after its getters
GetterAndAction(name) ==
  /\ \E i \in 1..Len(properties) :
       registerPropertyGetterToolOnServer(properties[i][2]).name = name
  /\ \E i \in 1..Len(actions) :
       registerActionToolOnServer(actions[i][2]).name = name
\* C28 (as claimed): under the explicit strategy registering a thing of
\* which two capabilities get the same tool name returns without an
\* exception, and a call of a name that is a getter's and an action's runs
\* the action, registered last.
C28_LastWriteWins ==
  [][toolStrategy = "explicit" =>
       /\ (result'.kind = "registerThing" /\ Collide(result'.thing)) => ~result'.threw
       /\ \A req \in CalledNow :
            (GetterAndAction(req.tool) /\ external' # NoExternal) =>
              external'.fn = "invoke"]_vars

\* ------------------------------------------------------------- C29, C30
\* getLastUpdated(uri) as an optional value
LastUpdatedOf(lasts, uri) == IF MapHas(lasts, uri) THEN <<MapGet(lasts, uri)>> ELSE <<>>
\* the events of a resource that have not expired at the clock's time
Unexpired(uri) == SelectSeq(BufferOf(uri), LAMBDA e : Age(e, now) < EventTtlMs)
\* this step is a push of handleWotEvent
Pushed == nextData' # nextData

C30_InitializeKeeps ==
  [][/\ result'.kind = "registerThing" =>
          \A i \in 1..Len(result'.thing.events) :
            LET uri == result'.thing.events[i].uri IN
            /\ MapHas(buffers', uri)
            /\ MapGet(buffers', uri) = BufferOf(uri)
     /\ (result'.kind = "resource" /\ ~MapHas(lastUpdated, result'.contents.uri)) =>
          /\ MapHas(buffers, result'.contents.uri)
          /\ result'.contents.events = <<>>
          /\ result'.contents.totalCount = 0
    ]_vars
\* the lamp was registered, two of its events are buffered, and it has just
\* been registered again with another description
C30_Witness ==
  /\ result.kind = "registerThing"
  /\ result.thing = Relamped
  /\ MapHas(properties, PropertyUri(<<"l">>, <<"s">>))
  /\ Len(BufferOf(EventUri(<<"l">>, <<"o">>))) = 2

\* ------------------------------------------------------------------ C31
\* the name the description gives the property a handler was just called for
InvokedName == translated.td.properties[1][result.index][1]
\* C31 (as claimed): for every property of every translated description the
\* getter and the setter find the pattern in the property's uri and call the
\* device function with the thing's id and the property's name as the
\* description has it; a uri the pattern is not found in makes the handler
\* throw without a device call.
C31_UriRoundTrip ==
  result.kind = "invoke" =>
    /\ result.outcome = "call"
    /\ external.fn = result.fn
    /\ external.thingId = translated.thing.id
    /\ external.name = InvokedName
    /\ SearchPropertyUri(translated.thing.properties[result.index].uri) = <<>> =>
         (result.outcome = "throw" /\ external = NoExternal)

\* ------------------------------------------------------------------ C32
\* the last min(n, Len(seq)) entries of a sequence
LastOf(seq, n) ==
  LET k == IF n < Len(seq) THEN n ELSE Len(seq) IN SubSeq(seq, Len(seq) - k + 1, Len(seq))
\* C32 (as claimed): getRecent(uri, n) returns the last min(n, size) of the
\* unexpired events of the resource, in their order, for every n >= 0, so
\* none for n = 0; getSince(uri, t) returns the unexpired events whose
\* timestamp is later than t.
C32_ReadViews ==
  [][result'.kind = "events" =>
       LET young == Unexpired(result'.uri) IN
       /\ result'.op = "getRecent" =>
            /\ result'.events = LastOf(young, result'.arg[1])
            /\ Len(result'.events) <= result'.arg[1]
       /\ result'.op = "getSince" =>
            result'.events =
              SelectSeq(young, LAMBDA e : DateParse(e.timestamp) > DateParse(result'.arg[1]))
    ]_vars

\* ------------------------------------------------------------------ C33
\* the capabilities of the things of the things Map, which list_devices and
\* the generic handlers go through
ListedProperties == UNION {Range(things[i][2].properties) : i \in 1..Len(things)}
ListedActions == UNION {Range(things[i][2].actions) : i \in 1..Len(things)}
ListedEvents == UNION {Range(things[i][2].events) : i \in 1..Len(things)}
\* C33 (as claimed): the properties, actions and events Maps, from which
\* initializeServer builds the tools and resources of a new instance, hold
\* the properties, actions and events of the things of the things Map and
\* nothing else, whatever was registered and registered again.
C33_DerivedMapsConsistent ==
  /\ Range(MapValues(properties)) = ListedProperties
  /\ Range(MapValues(actions)) = ListedActions
  /\ Range(MapValues(events)) = ListedEvents

\* ------------------------------------------------------------------ C34
\* C34 (as claimed): the id translate gives the thing is the key under which
\* consume has stored it, so that consumedThings.get(translated.id) finds it.
C34_SameThingId ==
  translated.pc = "translated" => translated.consumedId = <<translated.thing.id>>

\* ------------------------------------------------------------------ C35
\* C35 (as claimed): an addThing that has failed has left its thing neither
\* in the registry nor among the tools and resources of a stored instance;
\* one that has returned has left it in the registry and on every connected
\* stored instance.
C35_AddThingAllOrNothing ==
  \A a \in AddIds :
    LET thing == adds[a].thing
        ops == ThingOps(toolStrategy, thing)
    IN /\ adds[a].pc = "failed" =>
            /\ ~MapHas(things, thing.id)
            /\ \A s \in Live :
                 /\ ToolsOf(ops) \cap instances[s].tools = {}
                 /\ ResourcesOf(ops) \cap instances[s].resources = {}
       /\ adds[a].pc = "done" =>
            /\ MapHas(things, thing.id)
            /\ MapGet(things, thing.id) = thing
            /\ \A s \in Live :
                 instances[s].transport =>
                   /\ ToolsOf(ops) \subseteq instances[s].tools
                   /\ ResourcesOf(ops) \subseteq instances[s].resources

\* ------------------------------------------------------------------ C36
\* the instances of the stored sessions
SessionServers == {sessions[i][2].server : i \in 1..Len(sessions)}
\* C36 (as claimed): every key of the subscription Map is the stdio
\* instance, the instance of a stored session, or the instance of a request
\* that is still at its `await server.connect`; a request without session
\* identifier that does not initialize a session leaves no key behind.
C36_NoLeakedSubscriptionSet ==
  \A server \in MapKeySet(serverSubscriptions) :
    \/ stdioServer = <<server>>
    \/ server \in SessionServers
    \/ MapHas(connecting, server)

\* ------------------------------------------------------------------ C37
\* C37 (as claimed): once stop has returned, the session Map and the
\* subscription Map are empty, an event that arrives is buffered and is sent
\* to no instance, whatever sessions did while stop was suspended.
C37_StoppedIsQuiet ==
  /\ [](shutdown.pc = "done" => (sessions = <<>> /\ serverSubscriptions = <<>>))
  /\ [][shutdown.pc = "done" =>
          /\ Pushed =>
               LET buffer == MapGet(buffers', tasks'[running'].uri)
               IN buffer # <<>> /\ buffer[Len(buffer)].data = nextData
          /\ (running # 0 /\ tasks[running].pc = "notify") => tasks'[running].told = {}
       ]_vars

\* ------------------------------------------------------------------ C38
\* the device's subscriptions to an event that are not stopped
ActiveFor(key) == {sub \in wotClient.active : wotClient.made[sub] = key}
\* C38 (as claimed): the device has at most one subscription per event that
\* is not stopped; each of them is the one stored in eventSubscriptions or
\* is being stopped by the call that replaces it; a device event reaches
\* the callback once.
C38_OneSubscriptionPerEvent ==
  /\ \A key \in EventKeys : Cardinality(ActiveFor(key)) <= 1
  /\ \A sub \in wotClient.active :
       \/ wotClient.tracked[wotClient.made[sub]] = sub
       \/ \E c \in SubscribeIds :
            wotClient.calls[c].pc = "stopping" /\ wotClient.calls[c].sub = sub
  /\ wotClient.delivered <= 1

\* ------------------------------------------------------------------ C39
\* C39 (as claimed): count(uri) is the number of events get(uri) would
\* return at that moment and has(uri) tells whether get(uri) would return
\* any, whatever time has passed since the buffer was last read.
C39_CountAgreesWithGet ==
  [][/\ result'.kind = "count" =>
          result'.count = Len(BufferGet(buffers, result'.uri, now).events)
     /\ result'.kind = "has" =>
          result'.has = (BufferGet(buffers, result'.uri, now).events # <<>>)
    ]_vars
====
